---- MODULE Spec2Model ----
(***************************************************************************)
(* The ISF bulletin importer of eqcatalogue (importers/isf_bulletin.py):   *)
(* the line classifier, the parser states and their transition rules, the  *)
(* per-state decoding against CatalogueDatabase.get_or_create, and the     *)
(* loop of Importer.store with its exception handlers.                     *)
(***************************************************************************)
EXTENDS Integers, Sequences, FiniteSets, TLC

\* Longest input stream read when the input is not scripted.
MaxLines == 7

\* Python's None, where an object or a dict is expected, and where a decoded
\* column value is expected.
None == [none |-> TRUE]
NoValue == "None"

-----------------------------------------------------------------------------
(* Input lines.  A line is a record of the whitespace at its two ends     *)
(* (lead, trail), of the features of the text between them that the        *)
(* classifier looks at (form, len, uk) and of the columns that the         *)
(* decoders slice out of that text.                                        *)

\* A line with every column blank; the other lines override some fields.
\*   lead  : the number of whitespace characters before the text
\*   trail : the number of whitespace characters after it (the newline
\*           that ends a line of the stream is one)
\*   form  : which literal or regular expression the text matches
\*   len   : the number of characters of the text
\*   uk    : MeasureUKScaleBlockState.match succeeds on the text
\* Of an origin line: tfix, pfix and dfix are the columns 22, 54 and 76 (the
\* marks of a fixed time, position and depth), terr, smaj, smin, depth and
\* derr the columns of the time error, the two axes, the depth and its
\* error.
BlankLine ==
    [lead |-> 0, trail |-> 1,
     form |-> "blank", len |-> 0, uk |-> FALSE,
     key |-> "", name |-> "",
     author |-> "", origid |-> "", lat |-> "", strike |-> "", qual |-> "",
     tfix |-> "", terr |-> "", pfix |-> "", smaj |-> "", smin |-> "",
     depth |-> "", dfix |-> "", derr |-> "",
     scale |-> "", minmax |-> "", value |-> "", err |-> "", nsta |-> ""]

CatalogueLine == [BlankLine EXCEPT !.form = "ISC Bulletin", !.len = 12]
StopLine == [BlankLine EXCEPT !.form = "STOP", !.len = 4]
CommentLine == [BlankLine EXCEPT !.form = "(comment)", !.len = 9]
OriginTitles == [BlankLine EXCEPT !.form = "origin titles", !.len = 130]
MeasureTitles == [BlankLine EXCEPT !.form = "measure titles", !.len = 37]
JunkLine == [BlankLine EXCEPT !.form = "text", !.len = 20]

EventLine(k, n) ==
    [BlankLine EXCEPT !.form = "Event", !.len = 30, !.key = k, !.name = n]

\* A 136 character line laid out as an origin block line.
OriginLine(author, origid, lat, strike, qual) ==
    [BlankLine EXCEPT !.form = "text", !.len = 136,
                      !.author = author, !.origid = origid, !.lat = lat,
                      !.strike = strike, !.qual = qual]

\* A 38 character line laid out as a measure block line.
MeasureLine(scale, minmax, value, author, origid) ==
    [BlankLine EXCEPT !.form = "text", !.len = 38,
                      !.scale = scale, !.minmax = minmax, !.value = value,
                      !.author = author, !.origid = origid]

\* A line 'value [error] [stations] agency origin' (not 38 or 136 long).
UKLine(value, err, nsta, author, origid) ==
    [BlankLine EXCEPT !.form = "text", !.len = 27, !.uk = TRUE,
                      !.value = value, !.err = err, !.nsta = nsta,
                      !.author = author, !.origid = origid]

\* The input alphabet.
EventLines ==
    {EventLine("e1", "n1"), EventLine("e1", "n2"), EventLine("e2", "n1")}

OriginLines ==
    {OriginLine("A", "o1", "38.08", "", "m"),
     OriginLine("B", "o2", "38.08", "", ""),
     OriginLine("A", "o1", "??", "", "m"),
     OriginLine("A", "o1", "38.08", "??", "m"),
     OriginLine("A", "o1", "38.08", "", "x")}

MeasureLines ==
    {MeasureLine("mb", "", "5.0", "A", "o1"),
     MeasureLine("mb", "", "6.0", "B", "o1"),
     MeasureLine("mb", "", "5.0", "A", "o2"),
     MeasureLine("mb", "<", "5.0", "A", "o1"),
     MeasureLine("mb", "", "??", "A", "o1")}

UKLines == {UKLine("5.20", "0.30", "12", "A", "o1")}

Lines ==
    {CatalogueLine, StopLine, CommentLine, BlankLine, OriginTitles,
     MeasureTitles, JunkLine}
    \cup EventLines \cup OriginLines \cup MeasureLines \cup UKLines

\* Column contents that float() and int() accept.
Numerics == {"38.08", "5.0", "6.0", "5.20", "0.30", "12"}

-----------------------------------------------------------------------------
VARIABLES
    script,      \* the scripted input stream, <<>> when the input is free
    allow_junk,  \* the allow_junk argument of store()
    pc,          \* position in store(): "loop", "commit", "returned", "raised"
    raised,      \* what store() raised: [type, line]
    line_num,    \* number of the line read last (enumerate(..., start=1))
    line_type,   \* the kind detected for that line ("none" before any line)
    state,       \* Importer._state
    initial,     \* Importer._initial, the one StartState object
    context,     \* Importer._context
    working,     \* the session's view: committed rows and pending changes
    committed,   \* the rows of the database as of the last commit
    catalogue0,  \* history: the rows of the database when store() is called
    summary,     \* Importer._summary
    commits,     \* calls of session.commit() in this run
    rollbacks,   \* calls of session.rollback() in this run
    instance,    \* CatalogueDatabase.instance (the attribute of the class)
    constructed, \* the CatalogueDatabase objects constructed so far
    returned,    \* what the last call of CatalogueDatabase(...) returned
    since_reset, \* history: the object made by the first call since a reset
    last_call,   \* history: the last operation on the class and its argument
    calls,       \* history: the number of operations on the class
    key_order,   \* the order in which the dict Harmoniser._formulas iterates
    target_scale, \* Harmoniser.target_scale
    formulas,    \* Harmoniser._formulas: the formulas of each target scale
    harmonised,  \* what the last call of Harmoniser.harmonise did
    heap,        \* the list objects that the conversions made, by reference
    chain,       \* a measure and the measures that convert returned for it
    applied      \* history: the formulas that convert was called with

importer_vars ==
    <<script, allow_junk, pc, raised, line_num, line_type, state, initial,
      context, working, committed, catalogue0, summary, commits, rollbacks>>

singleton_vars ==
    <<instance, constructed, returned, since_reset, last_call, calls>>

harmoniser_vars == <<key_order, target_scale, formulas, harmonised>>

conversion_vars == <<heap, chain, applied>>

vars == <<importer_vars, singleton_vars, harmoniser_vars, conversion_vars>>

-----------------------------------------------------------------------------
(* Line classifier.                                                        *)

LineKinds ==
    {"catalogue_header", "event_header", "origin_header", "origin_block",
     "measure_header", "measure_block", "measure_unknown_scale_block",
     "comment", "stop", "junk"}

\* line.strip() with a fault: only the whitespace at the end is removed.
strip_trailing_only(line) == [line EXCEPT !.trail = 0]

\* line.strip(): the text without the whitespace at its two ends.
strip(line) == [line EXCEPT !.lead = 0, !.trail = 0]

\* line == literal
text_equals(line, literal) ==
    line.lead = 0 /\ line.trail = 0 /\ line.form = literal

\* regexp.match(line), for the patterns of the importer: each is anchored
\* at the first character; a final newline is accepted.
text_matches(line, pattern) ==
    line.lead = 0 /\ line.trail <= 1 /\ line.form = pattern

\* len(line)
text_len(line) == line.lead + line.len + line.trail

\* Importer._detect_line_type with a fault: the unknown-scale pattern is
\* tried before the two lengths.
detect_line_type_pattern_first(line, is_start) ==
    IF text_equals(line, "ISC Bulletin") THEN "catalogue_header"
    ELSE IF text_equals(line, "STOP") THEN "stop"
    ELSE IF text_matches(line, "(comment)") \/ line.form = "blank"
         THEN "comment"
    ELSE IF text_matches(line, "origin titles") THEN "origin_header"
    ELSE IF text_matches(line, "measure titles") THEN "measure_header"
    ELSE IF text_matches(line, "Event") THEN "event_header"
    ELSE IF line.lead = 0 /\ line.trail <= 1 /\ line.uk
         THEN "measure_unknown_scale_block"
    ELSE IF text_len(line) = 136 /\ ~is_start THEN "origin_block"
    ELSE IF text_len(line) = 38 /\ ~is_start THEN "measure_block"
    ELSE "junk"

\* Importer._detect_line_type, with self._state.is_start() as is_start.
detect_line_type(line, is_start) ==
    IF text_equals(line, "ISC Bulletin") THEN "catalogue_header"
    ELSE IF text_equals(line, "STOP") THEN "stop"
    ELSE IF text_matches(line, "(comment)") \/ line.form = "blank"
         THEN "comment"
    ELSE IF text_matches(line, "origin titles") THEN "origin_header"
    ELSE IF text_matches(line, "measure titles") THEN "measure_header"
    ELSE IF text_matches(line, "Event") THEN "event_header"
    ELSE IF text_len(line) = 136 /\ ~is_start THEN "origin_block"
    ELSE IF text_len(line) = 38 /\ ~is_start THEN "measure_block"
    ELSE IF line.lead = 0 /\ line.trail <= 1 /\ line.uk
         THEN "measure_unknown_scale_block"
    ELSE "junk"

-----------------------------------------------------------------------------
(* The catalogue database.  A row is [kind, key, data]: key holds the      *)
(* query_args of get_or_create (the natural key), data the other           *)
(* attributes.  An object is referred to by its key.                       *)

Row(kind, key, data) == [kind |-> kind, key |-> key, data |-> data]

\* session.query(class_object).filter_by(**query_args)
queryset(rows, kind, key) == {r \in rows : r.kind = kind /\ r.key = key}

\* get_or_create with a fault: the record is created without the query.
get_or_create_unqueried(rows, kind, key, data) ==
    [rows |-> rows \cup {Row(kind, key, data)}, created |-> TRUE]

\* get_or_create with a fault: a record that is found takes the creation
\* data of the call.
get_or_create_updating(rows, kind, key, data) ==
    IF {r \in rows : r.kind = kind /\ r.key = key} # {}
    THEN [rows |-> {IF r.kind = kind /\ r.key = key
                        THEN [r EXCEPT !.data = data] ELSE r : r \in rows},
          created |-> FALSE]
    ELSE [rows |-> rows \cup {Row(kind, key, data)}, created |-> TRUE]

\* CatalogueDatabase.get_or_create: the rows afterwards and `created`.
get_or_create(rows, kind, key, data) ==
    IF queryset(rows, kind, key) # {}
    THEN [rows |-> rows, created |-> FALSE]
    ELSE [rows |-> rows \cup {Row(kind, key, data)}, created |-> TRUE]

\* The assignment with a fault: the stored name is kept.
set_event_name_kept(rows, key, name) == rows

\* Assignment of `name` to the event found or created (EventState._save_event).
set_event_name(rows, key, name) ==
    {IF r.kind = "event" /\ r.key = key /\ r.data.name # name
         THEN [r EXCEPT !.data = [name |-> name]]
         ELSE r : r \in rows}

-----------------------------------------------------------------------------
(* Parser states.  Importer._state is [tag, eventsource, event, metadata]; *)
(* the Start state is the single object Importer._initial, whose           *)
(* eventsource attribute is the variable `initial`.                        *)

StartState == [tag |-> "Start", eventsource |-> None, event |-> None,
               metadata |-> None]
EventState(eventsource) ==
    [tag |-> "Event", eventsource |-> eventsource, event |-> None,
     metadata |-> None]
OriginHeaderState(event) ==
    [tag |-> "OriginHeader", eventsource |-> None, event |-> event,
     metadata |-> None]
OriginBlockState(event) ==
    [tag |-> "OriginBlock", eventsource |-> None, event |-> event,
     metadata |-> None]
MeasureHeaderState(event, metadata) ==
    [tag |-> "MeasureHeader", eventsource |-> None, event |-> event,
     metadata |-> metadata]
MeasureBlockState(event, metadata) ==
    [tag |-> "MeasureBlock", eventsource |-> None, event |-> event,
     metadata |-> metadata]
MeasureUKScaleBlockState(event, metadata) ==
    [tag |-> "MeasureUKScaleBlock", eventsource |-> None, event |-> event,
     metadata |-> metadata]

StateTags ==
    {"Start", "Event", "OriginHeader", "OriginBlock", "MeasureHeader",
     "MeasureBlock", "MeasureUKScaleBlock"}

\* is_start with a fault: the Start state is a starting state whatever it
\* holds.
is_start_any_start(st, init) == st.tag = "Start"

\* BaseState.is_start / StartState.is_start
is_start(st, init) ==
    IF st.tag = "Start" THEN init.eventsource = None ELSE FALSE

\* StartState._get_next_state with a fault: only a catalogue header is
\* accepted.
start_get_next_state_header_only(st, init, ltype) ==
    IF ltype = "catalogue_header" THEN st ELSE None

\* The _get_next_state methods: the next state, or None.
start_get_next_state(st, init, ltype) ==
    IF ltype = "catalogue_header" THEN st
    ELSE IF ltype = "event_header" /\ init.eventsource # None
         THEN EventState(init.eventsource)
    ELSE None

event_get_next_state(st, ltype) ==
    IF ltype = "origin_header" /\ st.event # None
    THEN OriginHeaderState(st.event)
    ELSE None

origin_header_get_next_state(st, ltype) ==
    IF ltype = "origin_block" THEN OriginBlockState(st.event) ELSE None

\* MeasureHeaderState._get_next_state with a fault: an event header is
\* accepted right after the measure titles.
measure_header_accepts_event(st, ltype) ==
    IF ltype = "measure_block"
    THEN MeasureBlockState(st.event, st.metadata)
    ELSE IF ltype = "measure_unknown_scale_block"
         THEN MeasureUKScaleBlockState(st.event, st.metadata)
    ELSE IF ltype = "event_header" THEN EventState(st.event.eventsource)
    ELSE None

measure_header_get_next_state(st, ltype) ==
    IF ltype = "measure_block"
    THEN MeasureBlockState(st.event, st.metadata)
    ELSE IF ltype = "measure_unknown_scale_block"
         THEN MeasureUKScaleBlockState(st.event, st.metadata)
    ELSE None

\* OriginBlockState._get_next_state with a fault: the metadata are not
\* handed to the state of the measure titles.
origin_block_drops_metadata(st, ltype) ==
    IF ltype = "measure_header" THEN MeasureHeaderState(st.event, None)
    ELSE IF ltype = "origin_block" THEN OriginBlockState(st.event)
    ELSE IF ltype = "event_header" THEN EventState(st.event.eventsource)
    ELSE None

origin_block_get_next_state(st, ltype) ==
    IF ltype = "measure_header"
    THEN MeasureHeaderState(st.event, st.metadata)
    ELSE IF ltype = "origin_block" THEN OriginBlockState(st.event)
    ELSE IF ltype = "event_header" THEN EventState(st.event.eventsource)
    ELSE None

\* MeasureUKScaleBlockState inherits it.
measure_block_get_next_state(st, ltype) ==
    IF ltype = "event_header" THEN EventState(st.event.eventsource)
    ELSE IF ltype = "measure_block"
         THEN MeasureBlockState(st.event, st.metadata)
    ELSE IF ltype = "measure_unknown_scale_block"
         THEN MeasureUKScaleBlockState(st.event, st.metadata)
    ELSE None

\* self._get_next_state(line_type) of BaseState.transition_rule: dispatch on
\* the class of the state.  None stands for the raise of UnexpectedLine.
get_next_state(st, init, ltype) ==
    CASE st.tag = "Start" -> start_get_next_state(st, init, ltype)
      [] st.tag = "Event" -> event_get_next_state(st, ltype)
      [] st.tag = "OriginHeader" -> origin_header_get_next_state(st, ltype)
      [] st.tag = "MeasureHeader" -> measure_header_get_next_state(st, ltype)
      [] st.tag = "OriginBlock" -> origin_block_get_next_state(st, ltype)
      [] st.tag \in {"MeasureBlock", "MeasureUKScaleBlock"} ->
            measure_block_get_next_state(st, ltype)

-----------------------------------------------------------------------------
(* Decoding: the process_line methods.  Each returns                       *)
(*   exc  : "none", or the exception that ends the method                  *)
(*   rows : the session's rows afterwards                                  *)
(*   ctx  : the context maps afterwards                                    *)
(*   out  : the partial summary returned (read only when exc = "none")     *)
(*   st   : the state object afterwards                                    *)
(*   init : the attributes of Importer._initial afterwards                 *)
(* `conflict` is the environment's choice of the get_or_create call of     *)
(* this line (1 or 2, 0 for none) at which the database reports an         *)
(* IntegrityError.                                                         *)

EntityKinds == {"eventsource", "event", "agency", "origin", "measure"}

NoOutput == [k \in EntityKinds |-> 0]
Output(kind, created) ==
    [k \in EntityKinds |-> IF k = kind /\ created THEN 1 ELSE 0]

Result(exc, rows, ctx, out, st, init) ==
    [exc |-> exc, rows |-> rows, ctx |-> ctx, out |-> out, st |-> st,
     init |-> init]

\* A dict is a set of [k, v] entries with distinct k.
dict_has(d, k) == \E e \in d : e.k = k
dict_get(d, k) == (CHOOSE e \in d : e.k = k).v
dict_set(d, k, v) == {e \in d : e.k # k} \cup {[k |-> k, v |-> v]}

ANALYSIS_TYPES ==
    {[k |-> "a", v |-> "automatic"], [k |-> "m", v |-> "manual"],
     [k |-> "g", v |-> "guess"]}

\* BaseState.process_line (OriginHeaderState, MeasureHeaderState)
base_process_line(line, conflict, rows, ctx, st, init) ==
    Result("none", rows, ctx, NoOutput, st, init)

\* StartState.process_line
start_process_line(line, conflict, rows, ctx, st, init) ==
    LET key == [name |-> line.form]
        got == get_or_create(rows, "eventsource", key, None)
    IN  IF conflict = 1
        THEN Result("IntegrityError", rows, ctx, NoOutput, st, init)
        ELSE Result("none", got.rows, ctx,
                    Output("eventsource", got.created), st,
                    [init EXCEPT !.eventsource = key])

\* EventState.process_line
event_process_line(line, conflict, rows, ctx, st, init) ==
    LET key == [source_key |-> line.key, eventsource |-> st.eventsource]
        got == get_or_create(rows, "event", key, [name |-> NoValue])
    IN  IF conflict = 1
        THEN Result("IntegrityError", rows, ctx, NoOutput, st, init)
        ELSE Result("none", set_event_name(got.rows, key, line.name), ctx,
                    Output("event", got.created),
                    [st EXCEPT !.event = key], init)

\* int() or float() of a column that is not blank
parses(column) == column \in Numerics

\* float(column) of a column that parses: the number, in hundredths.
float(column) ==
    [float |-> CASE column = "38.08" -> 3808
                 [] column = "5.0" -> 500
                 [] column = "6.0" -> 600
                 [] column = "5.20" -> 520
                 [] column = "0.30" -> 30
                 [] column = "12" -> 1200]

\* 'float(column) if column.strip() else None'
optional_float(column) == IF column = "" THEN None ELSE float(column)

\* int(column) of a column that parses, and the same after the test for a
\* blank column.
int(column) == [int |-> CASE column = "12" -> 12]
optional_int(column) == IF column = "" THEN None ELSE int(column)

\* A group of a regular expression match, as groupdict() gives it: the
\* text matched, or None for a group that took no part in the match.
group(column) == IF column = "" THEN None ELSE [text |-> column]

\* OriginBlockState._process_origin with a fault: the mark of a fixed time
\* is not looked at.
origin_time_error_unmarked(line) ==
    IF parses(line.terr) THEN float(line.terr) ELSE None

\* OriginBlockState._process_origin: time_error, semi_major_90error,
\* semi_minor_90error, depth and depth_error.
origin_time_error(line) ==
    IF line.tfix = "f" THEN None ELSE optional_float(line.terr)
origin_semi_major_90error(line) ==
    IF line.pfix = "f" \/ line.smaj = "" THEN None ELSE float(line.smaj)
origin_semi_minor_90error(line) ==
    IF line.pfix = "f" \/ line.smin = "" THEN None ELSE float(line.smin)
origin_depth(line) == optional_float(line.depth)
origin_depth_error(line) ==
    IF line.dfix = "f" \/ line.derr = "" THEN None ELSE float(line.derr)

\* The columns of an origin line that _process_origin hands to float()
\* all parse.
origin_columns_parse(line) ==
    /\ line.tfix = "f" \/ line.terr = "" \/ parses(line.terr)
    /\ parses(line.lat)
    /\ line.pfix = "f" \/ line.smaj = "" \/ parses(line.smaj)
    /\ line.pfix = "f" \/ line.smin = "" \/ parses(line.smin)
    /\ line.depth = "" \/ parses(line.depth)
    /\ line.dfix = "f" \/ line.derr = "" \/ parses(line.derr)

\* The creation data of the origin.
origin_data(line) ==
    [position |-> line.lat,
     time_error |-> origin_time_error(line),
     semi_major_90error |-> origin_semi_major_90error(line),
     semi_minor_90error |-> origin_semi_minor_90error(line),
     depth |-> origin_depth(line),
     depth_error |-> origin_depth_error(line)]
optional(column) == IF column = "" THEN NoValue ELSE column

\* OriginBlockState._process_origin: the value returned as origin_created.
origin_created(created) == TRUE

\* OriginBlockState.process_line
origin_process_line(line, conflict, rows, ctx, st, init) ==
    LET es == st.event.eventsource
        akey == [source_key |-> line.author, eventsource |-> es]
        agot == get_or_create(rows, "agency", akey, None)
        ctx1 == [ctx EXCEPT !.agencies = dict_set(@, line.author, akey)]
        okey == [source_key |-> line.origid, eventsource |-> es]
        ogot == get_or_create(agot.rows, "origin", okey, origin_data(line))
        ctx2 == [ctx1 EXCEPT !.origins = dict_set(@, line.origid, okey)]
        st2 == [st EXCEPT !.metadata =
                   [strike |-> optional(line.strike),
                    stations |-> optional_int(line.nsta),
                    analysis_type |->
                        IF line.qual = "" THEN NoValue
                        ELSE dict_get(ANALYSIS_TYPES, line.qual)]]
    IN  IF conflict = 1
        THEN Result("IntegrityError", rows, ctx, NoOutput, st, init)
        ELSE IF ~origin_columns_parse(line)
        THEN Result("ValueError", agot.rows, ctx1, NoOutput, st, init)
        ELSE IF conflict = 2
        THEN Result("IntegrityError", agot.rows, ctx1, NoOutput, st, init)
        ELSE IF line.strike # "" /\ ~parses(line.strike)
        THEN Result("ValueError", ogot.rows, ctx2, NoOutput, st, init)
        ELSE IF line.qual # "" /\ ~dict_has(ANALYSIS_TYPES, line.qual)
        THEN Result("KeyError", ogot.rows, ctx2, NoOutput, st, init)
        ELSE Result("none", ogot.rows, ctx2,
                    [k \in EntityKinds |->
                        IF k = "agency" /\ agot.created THEN 1
                        ELSE IF k = "origin" /\ origin_created(ogot.created)
                             THEN 1
                        ELSE 0],
                    st2, init)

\* The same with a fault: the stations of the metadata are left as the
\* origin line set them.
save_measure_stations_kept(conflict, rows, ctx, st, init, agency_name, origin_source_key, scale, value, standard_error, stations) ==
    LET akey == [source_key |-> agency_name,
                 eventsource |-> st.event.eventsource]
        agot == get_or_create(rows, "agency", akey, None)
        agency == IF dict_has(ctx.agencies, "agency_name")
                  THEN dict_get(ctx.agencies, "agency_name")
                  ELSE akey
        mkey == [event |-> st.event,
                 origin |-> dict_get(ctx.origins, origin_source_key),
                 agency |-> agency, scale |-> scale]
        mgot == get_or_create(agot.rows, "measure", mkey,
                              [value |-> value,
                               standard_error |-> standard_error])
    IN  IF conflict = 1
        THEN Result("IntegrityError", rows, ctx, NoOutput, st, init)
        ELSE IF ~dict_has(ctx.origins, origin_source_key)
        THEN Result("KeyError", agot.rows, ctx, NoOutput, st, init)
        ELSE IF conflict = 2
        THEN Result("IntegrityError", agot.rows, ctx, NoOutput, st, init)
        ELSE Result("none", mgot.rows, ctx, Output("measure", mgot.created),
                    st, init)

\* The same with a fault: an agency that the measure line creates is
\* counted.
save_measure_counting_agency(conflict, rows, ctx, st, init, agency_name, origin_source_key, scale, value, standard_error, stations) ==
    LET akey == [source_key |-> agency_name,
                 eventsource |-> st.event.eventsource]
        agot == get_or_create(rows, "agency", akey, None)
        agency == IF dict_has(ctx.agencies, "agency_name")
                  THEN dict_get(ctx.agencies, "agency_name")
                  ELSE akey
        mkey == [event |-> st.event,
                 origin |-> dict_get(ctx.origins, origin_source_key),
                 agency |-> agency, scale |-> scale]
        mgot == get_or_create(agot.rows, "measure", mkey,
                              [value |-> value,
                               standard_error |-> standard_error])
    IN  IF conflict = 1
        THEN Result("IntegrityError", rows, ctx, NoOutput, st, init)
        ELSE IF ~dict_has(ctx.origins, origin_source_key)
        THEN Result("KeyError", agot.rows, ctx, NoOutput, st, init)
        ELSE IF conflict = 2
        THEN Result("IntegrityError", agot.rows, ctx, NoOutput, st, init)
        ELSE Result("none", mgot.rows, ctx, [k \in EntityKinds |->
                        IF k = "agency" /\ agot.created THEN 1
                        ELSE IF k = "measure" /\ mgot.created THEN 1
                        ELSE 0],
                    [st EXCEPT !.metadata.stations = stations], init)

\* MeasureBlockState._save_measure, then the assignment of the stations
\* metadata and the return of process_line.  The agency is looked up in
\* the context under the literal key 'agency_name', with the agency found
\* or created for the code of the line as the default.
save_measure(conflict, rows, ctx, st, init, agency_name, origin_source_key, scale, value, standard_error, stations) ==
    LET akey == [source_key |-> agency_name,
                 eventsource |-> st.event.eventsource]
        agot == get_or_create(rows, "agency", akey, None)
        agency == IF dict_has(ctx.agencies, "agency_name")
                  THEN dict_get(ctx.agencies, "agency_name")
                  ELSE akey
        mkey == [event |-> st.event,
                 origin |-> dict_get(ctx.origins, origin_source_key),
                 agency |-> agency, scale |-> scale]
        mgot == get_or_create(agot.rows, "measure", mkey,
                              [value |-> value,
                               standard_error |-> standard_error])
    IN  IF conflict = 1
        THEN Result("IntegrityError", rows, ctx, NoOutput, st, init)
        ELSE IF ~dict_has(ctx.origins, origin_source_key)
        THEN Result("KeyError", agot.rows, ctx, NoOutput, st, init)
        ELSE IF conflict = 2
        THEN Result("IntegrityError", agot.rows, ctx, NoOutput, st, init)
        ELSE Result("none", mgot.rows, ctx, Output("measure", mgot.created),
                    [st EXCEPT !.metadata.stations = stations], init)

\* MeasureBlockState.process_line
measure_process_line(line, conflict, rows, ctx, st, init) ==
    IF line.minmax # ""
    THEN Result("AssertionError", rows, ctx, NoOutput, st, init)
    ELSE IF ~parses(line.value)
            \/ (line.err # "" /\ ~parses(line.err))
            \/ (line.nsta # "" /\ ~parses(line.nsta))
    THEN Result("ValueError", rows, ctx, NoOutput, st, init)
    ELSE save_measure(conflict, rows, ctx, st, init,
                      line.author, line.origid, line.scale,
                      float(line.value), optional_float(line.err),
                      optional_int(line.nsta))

\* MeasureUKScaleBlockState.process_line
measure_uk_process_line(line, conflict, rows, ctx, st, init) ==
    save_measure(conflict, rows, ctx, st, init,
                 line.author, line.origid, "Muk", group(line.value),
                 group(line.err), group(line.nsta))

\* next_state.process_line(line): dispatch on the class of the state
process_line(line, conflict, rows, ctx, st, init) ==
    CASE st.tag = "Start" ->
            start_process_line(line, conflict, rows, ctx, st, init)
      [] st.tag = "Event" ->
            event_process_line(line, conflict, rows, ctx, st, init)
      [] st.tag = "OriginBlock" ->
            origin_process_line(line, conflict, rows, ctx, st, init)
      [] st.tag = "MeasureBlock" ->
            measure_process_line(line, conflict, rows, ctx, st, init)
      [] st.tag = "MeasureUKScaleBlock" ->
            measure_uk_process_line(line, conflict, rows, ctx, st, init)
      [] OTHER ->
            base_process_line(line, conflict, rows, ctx, st, init)


-----------------------------------------------------------------------------
(* The session and the summary.                                            *)

\* session.rollback(): the pending changes are discarded.
session_rollback(rows, db) == db
\* session.commit(): the pending changes become the database.
session_commit(rows, db) == rows

\* BaseImporter.__init__: no counts, no errors.
InitialSummary == [counts |-> NoOutput, errors |-> <<>>]

\* Importer.update_summary with a fault: the partial summary is not merged.
update_summary_dropped(summ, output) == summ

\* Importer.update_summary
update_summary(summ, output) ==
    [summ EXCEPT !.counts = [k \in EntityKinds |-> @[k] + output[k]]]

NotRaised == [type |-> "none", line |-> 0]

-----------------------------------------------------------------------------
(* Importer.store: the body of the loop for one line.  What a line does is *)
(* an outcome record: where store() goes on (pc, raised) and the new       *)
(* values of the state, the context, the session's rows, the summary and   *)
(* the number of rollbacks (rb).                                           *)

Outcome(p, exc, st, init, ctx, rows, summ, rb) ==
    [pc |-> p, raised |-> exc, st |-> st, init |-> init, ctx |-> ctx,
     rows |-> rows, summ |-> summ, rb |-> rb]

\* Importer._parsing_error with a fault: no rollback is issued.
parsing_error_no_rollback(rows, db) == rows

\* Importer._parsing_error: the session's rows after it.
parsing_error(rows, db) == session_rollback(rows, db)

\* except IntegrityError: raise self._parsing_error(line_num)
on_integrity_error(n, st, init, ctx, rows, db, summ, rb) ==
    Outcome("raised", [type |-> "ParsingFailure", line |-> n],
            st, init, ctx, parsing_error(rows, db), summ, rb + 1)

\* The state store() resets to after recording an error.
recovery_state(current) == StartState

\* The handler with a fault: junk at the start is ignored whatever
\* allow_junk says.
on_recoverable_any_junk(ltype, allow, n, current, init, ctx, rows, db, summ, rb) ==
    IF (IF current.tag = "Start" THEN init.eventsource = None ELSE FALSE)
       /\ ltype = "junk"
    THEN Outcome("loop", NotRaised, current, init, ctx, rows, summ, rb)
    ELSE Outcome("loop", NotRaised, StartState, init, ctx, db,
                 [summ EXCEPT !.errors = Append(@, n)], rb + 1)

\* The handler with a fault: the reset is to a fresh StartState, which holds
\* no event source.
on_recoverable_fresh_start(ltype, allow, n, current, init, ctx, rows, db, summ, rb) ==
    IF (IF current.tag = "Start" THEN init.eventsource = None ELSE FALSE)
       /\ ltype = "junk" /\ allow
    THEN Outcome("loop", NotRaised, current, init, ctx, rows, summ, rb)
    ELSE Outcome("loop", NotRaised, StartState, [eventsource |-> None], ctx,
                 db, [summ EXCEPT !.errors = Append(@, n)], rb + 1)

\* The handler with a fault: the counts of the summary are reset with the
\* transaction.
on_recoverable_counts_reset(ltype, allow, n, current, init, ctx, rows, db, summ, rb) ==
    IF (IF current.tag = "Start" THEN init.eventsource = None ELSE FALSE)
       /\ ltype = "junk" /\ allow
    THEN Outcome("loop", NotRaised, current, init, ctx, rows, summ, rb)
    ELSE Outcome("loop", NotRaised, StartState, init, ctx, db,
                 [counts |-> NoOutput, errors |-> Append(summ.errors, n)],
                 rb + 1)

\* The handler with a fault: the error is recorded with the 0-based index
\* of the line.
on_recoverable_zero_based(ltype, allow, n, current, init, ctx, rows, db, summ, rb) ==
    IF (IF current.tag = "Start" THEN init.eventsource = None ELSE FALSE)
       /\ ltype = "junk" /\ allow
    THEN Outcome("loop", NotRaised, current, init, ctx, rows, summ, rb)
    ELSE Outcome("loop", NotRaised, StartState, init, ctx, db,
                 [summ EXCEPT !.errors = Append(@, n - 1)], rb + 1)

\* except (UnexpectedLine, ValueError): ignore the line or record the error
on_recoverable(ltype, allow, n, current, init, ctx, rows, db, summ, rb) ==
    IF is_start(current, init) /\ ltype = "junk" /\ allow
    THEN Outcome("loop", NotRaised, current, init, ctx, rows, summ, rb)
    ELSE Outcome("loop", NotRaised, recovery_state(current), init, ctx,
                 parsing_error(rows, db),
                 [summ EXCEPT !.errors = Append(@, n)], rb + 1)

\* The exceptions the loop of store() has a handler for.
Recoverable == {"UnexpectedLine", "ValueError"}

\* An exception store() has no handler for leaves store() as it is.
on_unhandled(exc, n, st, init, ctx, rows, summ, rb) ==
    Outcome("raised", [type |-> exc, line |-> n], st, init, ctx, rows, summ,
            rb)

\* The try block with a fault: when the decoding of a line fails, what it
\* had created before the failure is counted.
try_line_counting_partial(line, ltype, conflict, allow, n, st, init, ctx, rows, db, summ, rb) ==
    LET next == get_next_state(st, init, ltype)
        r == process_line(line, conflict, rows, ctx, next, init)
        partial == [k \in EntityKinds |->
                       Cardinality({x \in r.rows \ rows : x.kind = k})]
    IN  IF next = None
        THEN on_recoverable(ltype, allow, n, st, init, ctx, rows, db,
                            summ, rb)
        ELSE IF r.exc = "none"
        THEN Outcome("loop", NotRaised, r.st, r.init, r.ctx, r.rows,
                     update_summary(summ, r.out), rb)
        ELSE IF r.exc = "IntegrityError"
        THEN on_integrity_error(n, r.st, r.init, r.ctx, r.rows, db, summ, rb)
        ELSE IF r.exc \in Recoverable
        THEN on_recoverable(ltype, allow, n, r.st, r.init, r.ctx, r.rows,
                            db, update_summary(summ, partial), rb)
        ELSE on_unhandled(r.exc, n, r.st, r.init, r.ctx, r.rows, summ, rb)

\* The try block and its handlers, for a line that is no comment and no stop.
try_line(line, ltype, conflict, allow, n, st, init, ctx, rows, db, summ, rb) ==
    LET next == get_next_state(st, init, ltype)
        r == process_line(line, conflict, rows, ctx, next, init)
    IN  IF next = None
        THEN on_recoverable(ltype, allow, n, st, init, ctx, rows, db,
                            summ, rb)
        ELSE IF r.exc = "none"
        THEN Outcome("loop", NotRaised, r.st, r.init, r.ctx, r.rows,
                     update_summary(summ, r.out), rb)
        ELSE IF r.exc = "IntegrityError"
        THEN on_integrity_error(n, r.st, r.init, r.ctx, r.rows, db, summ, rb)
        ELSE IF r.exc \in Recoverable
        THEN on_recoverable(ltype, allow, n, r.st, r.init, r.ctx, r.rows,
                            db, summ, rb)
        ELSE on_unhandled(r.exc, n, r.st, r.init, r.ctx, r.rows, summ, rb)

\* The iteration with a fault: a STOP line is skipped like a comment.
store_line_stop_skipped(line, conflict, allow, n, st, init, ctx, rows, db, summ, rb) ==
    LET text == strip(line)
        ltype == detect_line_type(text, is_start(st, init))
    IN  IF ltype \in {"comment", "stop"}
        THEN Outcome("loop", NotRaised, st, init, ctx, rows, summ, rb)
        ELSE try_line(text, ltype, conflict, allow, n, st, init, ctx,
                      rows, db, summ, rb)

\* One iteration of the loop.
store_line(line, conflict, allow, n, st, init, ctx, rows, db, summ, rb) ==
    LET text == strip(line)
        ltype == detect_line_type(text, is_start(st, init))
    IN  IF ltype = "comment"
        THEN Outcome("loop", NotRaised, st, init, ctx, rows, summ, rb)
        ELSE IF ltype = "stop"
        THEN Outcome("commit", NotRaised, st, init, ctx, rows, summ, rb)
        ELSE try_line(text, ltype, conflict, allow, n, st, init, ctx,
                      rows, db, summ, rb)

-----------------------------------------------------------------------------
(* CatalogueDatabase as a singleton (models.py): the metaclass Singleton   *)
(* and reset_singleton.  An object is [id, engine]: id tells the objects   *)
(* apart, engine is the argument it was constructed with.                  *)

\* Most operations on the class in one run.
MaxCalls == 6

\* The `engine` argument of the constructor.
Engines == {"spatialite", "postgis", "memory"}

\* Singleton.__call__ with a fault: every call constructs an object.
singleton_call_always_new(inst, n, engine) ==
    [instance |-> [id |-> n + 1, engine |-> engine], constructed |-> n + 1]

\* Singleton.__call__: the attribute `instance` afterwards (it is what the
\* call returns) and the number of objects constructed so far.
singleton_call(inst, n, engine) ==
    IF inst = None
    THEN [instance |-> [id |-> n + 1, engine |-> engine],
          constructed |-> n + 1]
    ELSE [instance |-> inst, constructed |-> n]

NoCall == [op |-> "none", engine |-> "none"]

\* Singleton.__init__: the class starts without an instance.
SingletonIdle ==
    /\ instance = None
    /\ constructed = 0
    /\ returned = None
    /\ since_reset = None
    /\ last_call = NoCall
    /\ calls = 0

\* CatalogueDatabase(engine)
Construct(engine) ==
    /\ calls < MaxCalls
    /\ \E o \in {singleton_call(instance, constructed, engine)} :
          /\ instance' = o.instance
          /\ constructed' = o.constructed
          /\ returned' = o.instance
          /\ since_reset' = IF since_reset = None THEN o.instance
                            ELSE since_reset
    /\ last_call' = [op |-> "construct", engine |-> engine]
    /\ calls' = calls + 1

\* CatalogueDatabase.reset_singleton()
reset_singleton ==
    /\ calls < MaxCalls
    /\ instance' = None
    /\ since_reset' = None
    /\ last_call' = [op |-> "reset", engine |-> "none"]
    /\ calls' = calls + 1
    /\ UNCHANGED <<constructed, returned>>

-----------------------------------------------------------------------------
(* The harmoniser (harmoniser.py).  A formula is [domain, target_scale];   *)
(* its domain, an object queried with `in`, is the set of the scales of    *)
(* the measures it takes.  A measure is [id, scale, formulas]: id tells    *)
(* the measures of the input apart, formulas are the formulas it was       *)
(* converted by.                                                           *)

\* Most formulas added to a harmoniser.
MaxFormulas == 3

\* Most formulas the graph visit of find_formulas_for applies for one
\* starting formula before the visit is taken not to end.
MaxVisits == 16

Scales == {"mb", "ms", "ML", "Mw"}

\* Orders in which a dict with these keys may iterate.
KeyOrders == {<<"mb", "ms", "ML", "Mw">>, <<"Mw", "ML", "ms", "mb">>}

\* ConversionFormula.__init__
ConversionFormula(domain, target) ==
    [domain |-> domain, target_scale |-> target]

\* The formulas added to a harmoniser.
FormulaAlphabet ==
    {ConversionFormula({"mb"}, "ms"), ConversionFormula({"ms"}, "Mw"),
     ConversionFormula({"ms"}, "ML"), ConversionFormula({"mb"}, "Mw"),
     ConversionFormula({"Mw"}, "Mw"), ConversionFormula({"mb", "ms"}, "Mw"),
     ConversionFormula({"ML"}, "mb"), ConversionFormula({"Mw"}, "mb"),
     ConversionFormula({"ML"}, "Mw"), ConversionFormula({"ms"}, "mb")}

\* MagnitudeMeasure.__init__
MagnitudeMeasure(id, scale) ==
    [id |-> id, scale |-> scale, formulas |-> <<>>]

\* MagnitudeMeasure.convert / ConvertedMeasure.convert
convert(measure, formula) ==
    [measure EXCEPT !.scale = formula.target_scale,
                    !.formulas = Append(@, formula)]

\* ConversionFormula.is_applicable_for
is_applicable_for(formula, measure) == measure.scale \in formula.domain

\* ConversionFormula.apply: the ValueError, or the converted measure.
apply(formula, measure) ==
    IF ~is_applicable_for(formula, measure)
    THEN [exc |-> "ValueError", measure |-> measure]
    ELSE [exc |-> "none", measure |-> convert(measure, formula)]

\* sum(self._formulas.values(), []), the dict iterating in the order
\* `order`.
RECURSIVE all_formulas(_, _)
all_formulas(fs, order) ==
    IF order = <<>> THEN <<>>
    ELSE fs[Head(order)] \o all_formulas(fs, Tail(order))

\* [f for f in seq if f.is_applicable_for(measure)]
RECURSIVE applicable_in(_, _)
applicable_in(seq, measure) ==
    IF seq = <<>> THEN <<>>
    ELSE IF is_applicable_for(Head(seq), measure)
         THEN <<Head(seq)>> \o applicable_in(Tail(seq), measure)
         ELSE applicable_in(Tail(seq), measure)

\* FormulaPathFinder.applicable_formulas
applicable_formulas(fs, order, measure) ==
    applicable_in(all_formulas(fs, order), measure)

\* The entries that the visit pushes for the formulas of `seq`.
to_visit_entries(seq, depth, measure) ==
    [i \in 1..Len(seq) |->
        [formula |-> seq[i], depth |-> depth, measure |-> measure]]

\* previous_depth of find_formulas_for: assigned once for each starting
\* formula.
previous_depth == -1

\* The while loop of find_formulas_for: `ret` when the loop ends, or that
\* it has not ended after `fuel` formulas.
RECURSIVE visit(_, _, _, _, _, _, _)
visit(fs, order, target, to_visit, current_path, ret, fuel) ==
    IF to_visit = <<>> THEN [ret |-> ret, ends |-> TRUE]
    ELSE IF fuel = 0 THEN [ret |-> ret, ends |-> FALSE]
    ELSE LET top == to_visit[Len(to_visit)]
             next_measure == apply(top.formula, top.measure).measure
             next_formulas == applicable_formulas(fs, order, next_measure)
             path == IF top.depth > previous_depth
                     THEN Append(current_path, top.formula)
                     ELSE SubSeq(current_path, 1, Len(current_path) - 1)
         IN  visit(fs, order, target,
                 SubSeq(to_visit, 1, Len(to_visit) - 1)
                     \o to_visit_entries(next_formulas, top.depth + 1, next_measure),
                 path,
                 IF next_measure.scale = target THEN Append(ret, path)
                 ELSE ret,
                 fuel - 1)

\* The for loop over the candidate starting formulas.
RECURSIVE visit_from(_, _, _, _, _, _)
visit_from(fs, order, target, measure, starting, ret) ==
    IF starting = <<>> THEN [ret |-> ret, ends |-> TRUE]
    ELSE LET v == visit(fs, order, target,
                        to_visit_entries(<<Head(starting)>>, 0, measure),
                        <<>>, ret, MaxVisits)
         IN  IF ~v.ends THEN v
             ELSE visit_from(fs, order, target, measure, Tail(starting),
                             v.ret)

\* What a call of find_formulas_for does: it returns None, returns a list,
\* or does not return.
ReturnsNone == [does |-> "returns None", list |-> <<>>]

ReturnsList(list) == [does |-> "returns a list", list |-> list]

NeverReturns == [does |-> "never returns", list |-> <<>>]

\* FormulaPathFinder.find_formulas_for
find_formulas_for(fs, order, measure, target) ==
    IF fs[target] = <<>> THEN ReturnsNone
    ELSE IF applicable_in(fs[target], measure) # <<>>
    THEN ReturnsList(<<Head(applicable_in(fs[target], measure))>>)
    ELSE LET v == visit_from(fs, order, target, measure,
                             applicable_formulas(fs, order, measure), <<>>)
         IN  IF ~v.ends THEN NeverReturns
             ELSE IF Len(v.ret) > 0 THEN ReturnsList(v.ret[1])
             ELSE ReturnsList(v.ret)

\* The applications of the formulas of a list, one after the other.
RECURSIVE apply_all(_, _)
apply_all(list, measure) ==
    IF list = <<>> THEN [exc |-> "none", measure |-> measure]
    ELSE LET a == apply(Head(list), measure)
         IN  IF a.exc # "none" THEN a ELSE apply_all(Tail(list), a.measure)

\* What a call of harmonise did: status is "returned", "raised" or "never
\* returns"; converted holds the entries of the dict, as [key, measure,
\* formulas]; unconverted is the list.
Harmonised(status, converted, unconverted) ==
    [status |-> status, converted |-> converted, unconverted |-> unconverted]

\* The body of the loop of harmonise with a fault: a measure of the target
\* scale is left unconverted whatever allow_trivial_conversion says.
harmonise_measure_no_trivial(fs, order, target, allow, m, h) ==
    LET found == find_formulas_for(fs, order, m, target)
        value == apply_all(found.list, m)
    IN  IF found.does = "never returns"
        THEN Harmonised("never returns", h.converted, h.unconverted)
        ELSE IF found.list # <<>>
        THEN IF value.exc # "none"
             THEN Harmonised("raised", h.converted, h.unconverted)
             ELSE Harmonised(h.status,
                     {c \in h.converted : c.key # m} \cup
                        {[key |-> m, measure |-> value.measure, formulas |-> found.list]},
                     h.unconverted)
        ELSE Harmonised(h.status, h.converted, Append(h.unconverted, m))

\* Harmoniser.harmonise: the body of the loop for the measure m.
harmonise_measure(fs, order, target, allow, m, h) ==
    LET found == find_formulas_for(fs, order, m, target)
        value == apply_all(found.list, m)
    IN  IF found.does = "never returns"
        THEN Harmonised("never returns", h.converted, h.unconverted)
        ELSE IF found.list # <<>>
        THEN IF value.exc # "none"
             THEN Harmonised("raised", h.converted, h.unconverted)
             ELSE Harmonised(h.status,
                     {c \in h.converted : c.key # m} \cup
                        {[key |-> m, measure |-> value.measure, formulas |-> found.list]},
                     h.unconverted)
        ELSE IF m.scale = target /\ allow
        THEN Harmonised(h.status,
                 {c \in h.converted : c.key # m} \cup
                    {[key |-> m, measure |-> m, formulas |-> <<>>]},
                 h.unconverted)
        ELSE Harmonised(h.status, h.converted, Append(h.unconverted, m))

\* Harmoniser.harmonise: the loop over the measures.
RECURSIVE harmonise(_, _, _, _, _, _)
harmonise(fs, order, target, allow, measures, h) ==
    IF measures = <<>> \/ h.status # "returned" THEN h
    ELSE harmonise(fs, order, target, allow, Tail(measures),
                   harmonise_measure(fs, order, target, allow,
                                     Head(measures), h))

\* The measures handed to harmonise: one of each scale, and a list in
\* which a measure comes twice.
MeasureInputs ==
    {<<MagnitudeMeasure(1, "mb"), MagnitudeMeasure(2, "ms"), MagnitudeMeasure(3, "ML"), MagnitudeMeasure(4, "Mw")>>,
     <<MagnitudeMeasure(4, "Mw"), MagnitudeMeasure(1, "mb"), MagnitudeMeasure(4, "Mw")>>}

NotHarmonised ==
    [status |-> "not called", allow |-> FALSE, measures |-> <<>>,
     converted |-> {}, unconverted |-> <<>>]

\* Harmoniser.__init__: no formulas.
HarmoniserIdle ==
    /\ key_order = <<"mb", "ms", "ML", "Mw">>
    /\ target_scale = "Mw"
    /\ formulas = [sc \in Scales |-> <<>>]
    /\ harmonised = NotHarmonised

\* Harmoniser(target_scale)
HarmoniserInit ==
    /\ key_order \in KeyOrders
    /\ target_scale \in {"Mw", "mb"}
    /\ formulas = [sc \in Scales |-> <<>>]
    /\ harmonised = NotHarmonised

\* The number of formulas of the harmoniser.
RECURSIVE count_formulas(_, _)
count_formulas(fs, order) ==
    IF order = <<>> THEN 0
    ELSE Len(fs[Head(order)]) + count_formulas(fs, Tail(order))

\* Harmoniser.add_conversion_formula / Harmoniser._add_formula
add_conversion_formula(formula) ==
    /\ count_formulas(formulas, key_order) < MaxFormulas
    /\ formulas' = [formulas EXCEPT ![formula.target_scale] = Append(@, formula)]
    /\ harmonised' = NotHarmonised
    /\ UNCHANGED <<key_order, target_scale>>

\* Harmoniser.harmonise(measures, allow_trivial_conversion=allow)
Harmonise(measures, allow) ==
    /\ harmonised.status = "not called"
    /\ \E h \in {harmonise(formulas, key_order, target_scale, allow, measures, Harmonised("returned", {}, <<>>))} :
          harmonised' = [status |-> h.status, allow |-> allow,
                         measures |-> measures, converted |-> h.converted,
                         unconverted |-> h.unconverted]
    /\ UNCHANGED <<key_order, target_scale, formulas>>

-----------------------------------------------------------------------------
(* The conversions of a measure (models.py), with the lists as objects.    *)
(* `heap` holds the lists made so far; a ConvertedMeasure is               *)
(* [scale, original_measure, formulas], formulas being the reference       *)
(* (the index in the heap) of its list.                                    *)

\* Most calls of convert on one measure.
MaxChain == 3

\* A new list object with the content `list`: the heap and the reference.
new_list(h, list) == [heap |-> Append(h, list), ref |-> Len(h) + 1]

\* ConvertedMeasure.__init__: the heap afterwards and the object made.
\* `formulas or []` makes a new list when the one given is empty.
ConvertedMeasure(h, scale, original_measure, formulas_ref) ==
    LET given == IF h[formulas_ref] = <<>> THEN new_list(h, <<>>)
                 ELSE [heap |-> h, ref |-> formulas_ref]
    IN  [heap |-> given.heap,
         object |-> [scale |-> scale, original_measure |-> original_measure,
                     formulas |-> given.ref]]

\* MagnitudeMeasure.convert
MagnitudeMeasure_convert(h, self, formula) ==
    LET list == new_list(h, <<formula>>)
    IN  ConvertedMeasure(list.heap, formula.target_scale, self, list.ref)

\* ConvertedMeasure.convert with a fault: the formula is appended to the
\* list of the measure, which the new measure shares.
ConvertedMeasure_convert_in_place(h, self, formula) ==
    ConvertedMeasure([h EXCEPT ![self.formulas] = Append(@, formula)],
                     formula.target_scale, self.original_measure,
                     self.formulas)

\* ConvertedMeasure.convert
ConvertedMeasure_convert(h, self, formula) ==
    LET list == new_list(h, h[self.formulas] \o <<formula>>)
    IN  ConvertedMeasure(list.heap, formula.target_scale,
                         self.original_measure, list.ref)

\* isinstance(measure, ConvertedMeasure)
is_converted(measure) == "original_measure" \in DOMAIN measure

\* No measure is being converted.
ConversionIdle == heap = <<>> /\ chain = <<>> /\ applied = <<>>

\* A MagnitudeMeasure of any scale, not converted yet.
ConversionInit ==
    /\ heap = <<>>
    /\ \E sc \in Scales : chain = <<MagnitudeMeasure(1, sc)>>
    /\ applied = <<>>

\* measure.convert(new_value, formula, standard_error) on the measure
\* that the last conversion returned.
Convert(formula) ==
    /\ Len(applied) < MaxChain
    /\ \E r \in {IF is_converted(chain[Len(chain)])
                 THEN ConvertedMeasure_convert(heap, chain[Len(chain)], formula)
                 ELSE MagnitudeMeasure_convert(heap, chain[Len(chain)], formula)} :
          /\ heap' = r.heap
          /\ chain' = Append(chain, r.object)
    /\ applied' = Append(applied, formula)

-----------------------------------------------------------------------------
(* The state machine.                                                      *)

\* The catalogue a run of store() on
\*   ISC Bulletin / Event e1 n1 / origin titles / origin A o1 /
\*   measure titles / measure mb A o1
\* leaves committed.
ISC == [name |-> "ISC Bulletin"]
ImportedCatalogue ==
    LET ev == [source_key |-> "e1", eventsource |-> ISC]
        ag == [source_key |-> "A", eventsource |-> ISC]
        og == [source_key |-> "o1", eventsource |-> ISC]
    IN  {Row("eventsource", ISC, None),
         Row("event", ev, [name |-> "n1"]),
         Row("agency", ag, None),
         Row("origin", og,
             [position |-> "38.08", time_error |-> None,
              semi_major_90error |-> None, semi_minor_90error |-> None,
              depth |-> None, depth_error |-> None]),
         Row("measure",
             [event |-> ev, origin |-> og, agency |-> ag, scale |-> "mb"],
             [value |-> [float |-> 500], standard_error |-> None])}

InitialCatalogues == {{}, ImportedCatalogue}

\* Importer.__init__, and the arguments of store().
InitWith(scripts) ==
    /\ script \in scripts
    /\ allow_junk \in BOOLEAN
    /\ pc = "loop"
    /\ raised = NotRaised
    /\ line_num = 0
    /\ line_type = "none"
    /\ state = StartState
    /\ initial = [eventsource |-> None]
    /\ context = [agencies |-> {}, origins |-> {}]
    /\ committed \in InitialCatalogues
    /\ catalogue0 = committed
    /\ working = committed
    /\ summary = InitialSummary
    /\ commits = 0
    /\ rollbacks = 0
    /\ SingletonIdle
    /\ HarmoniserIdle
    /\ ConversionIdle

Init == InitWith({<<>>})

\* Scripted inputs: well-formed single-event inputs, and two single-event
\* blocks with one more line between them.
GoodOriginLines ==
    {OriginLine("A", "o1", "38.08", "", "m"),
     OriginLine("B", "o2", "38.08", "", "")}
GoodMeasureLines ==
    {MeasureLine("mb", "", "5.0", "A", "o1"),
     MeasureLine("mb", "", "6.0", "B", "o1"),
     MeasureLine("mb", "", "5.0", "A", "o2")} \cup UKLines

EventBlocks ==
    {b \in {<<ev, OriginTitles, ol, MeasureTitles, ml>> :
                ev \in EventLines, ol \in GoodOriginLines,
                ml \in GoodMeasureLines} : b[5].origid = b[3].origid}

WellFormedInputs == {<<CatalogueLine>> \o b : b \in EventBlocks}

\* Lines that no state reached at the end of a block decodes.
InvalidLines ==
    {JunkLine, OriginTitles, MeasureTitles, CatalogueLine,
     MeasureLine("mb", "", "??", "A", "o1")}

FirstBlock ==
    <<CatalogueLine, EventLine("e1", "n1"), OriginTitles,
      OriginLine("A", "o1", "38.08", "", "m"), MeasureTitles,
      MeasureLine("mb", "", "5.0", "A", "o1")>>
SecondBlocks ==
    {b \in EventBlocks : b[1] = EventLine("e2", "n1")}

Sandwiches ==
    {FirstBlock \o <<bad>> \o b : bad \in InvalidLines, b \in SecondBlocks}
    \cup {FirstBlock \o <<bad, CatalogueLine>> \o b :
              bad \in InvalidLines, b \in SecondBlocks}

\* A second event whose measure line names the origin id decoded for the
\* first event, its own origin block having decoded another one.
CrossEventInputs ==
    {FirstBlock \o
        <<EventLine("e2", "n1"), OriginTitles,
          OriginLine("B", "o2", "38.08", "", ""), MeasureTitles, ml>> :
        ml \in {MeasureLine("mb", "", "5.0", "A", "o1"),
                UKLine("5.20", "0.30", "12", "A", "o1")}}

\* Lines on which more than one test of the classifier succeeds: a
\* comment, column titles or an event header that is 136 or 38 characters
\* long, and a line of the unknown-scale pattern of such a length.
OverlapLines ==
    {[l EXCEPT !.len = n] :
        l \in {CommentLine, OriginTitles, MeasureTitles,
               EventLine("e1", "n1")}, n \in {136, 38}}
    \cup {[MeasureLine("5.20", "", "0.30", "A", "o1") EXCEPT !.uk = TRUE],
          [UKLine("5.20", "0.30", "12", "A", "o1") EXCEPT !.len = 136]}

\* Measure lines of the key of the measure of FirstBlock (event e1, origin
\* o1, agency A, scale mb) with another value or another standard error.
RepeatLines ==
    {MeasureLine("mb", "", "6.0", "A", "o1"),
     [MeasureLine("mb", "", "5.0", "A", "o1") EXCEPT !.err = "0.30"],
     UKLine("6.0", "0.30", "12", "A", "o1")}

\* Origin lines with the columns of the time error, of the two axes and of
\* the depth and its error blank, filled or not numbers, with and without
\* the marks of a fixed time, position and depth.
OriginFieldLines ==
    LET base == OriginLine("A", "o1", "38.08", "", "m")
    IN  {[base EXCEPT !.tfix = f, !.terr = e] :
            f \in {"", "f"}, e \in {"", "0.30", "??"}}
        \cup {[base EXCEPT !.pfix = f, !.smaj = a, !.smin = b] :
                f \in {"", "f"}, a \in {"", "5.0", "??"}, b \in {"", "6.0"}}
        \cup {[base EXCEPT !.depth = d, !.dfix = f, !.derr = e] :
                d \in {"", "12"}, f \in {"", "f"}, e \in {"", "0.30", "??"}}

\* Lines of the unknown-scale pattern with and without the error and the
\* stations group.
UKFieldLines ==
    {UKLine("5.20", e, n, "A", "o1") : e \in {"", "0.30"}, n \in {"", "12"}}

\* Lines with whitespace before the text: a catalogue header, an event
\* header, column titles, an origin and a measure line, a text that is
\* 136 or 38 characters long only with that whitespace, and a line of the
\* unknown-scale pattern, whose scale column is blank.
PaddedLines ==
    {[l EXCEPT !.lead = 2] :
        l \in {CatalogueLine, StopLine, EventLine("e1", "n1"), OriginTitles,
               MeasureTitles, OriginLine("A", "o1", "38.08", "", "m"),
               MeasureLine("mb", "", "5.0", "A", "o1"),
               [JunkLine EXCEPT !.len = 134], [JunkLine EXCEPT !.len = 36]}}
    \cup {[UKLine("5.20", "0.30", "12", "A", "o1") EXCEPT !.lead = 6],
          [CatalogueLine EXCEPT !.trail = 3]}

AllLines ==
    Lines \cup OverlapLines \cup RepeatLines \cup OriginFieldLines
    \cup UKFieldLines \cup PaddedLines

\* One line of any kind after the start, after leading junk, after the
\* catalogue header, in an origin block and after the measure titles.
ClassifierInputs ==
    {prefix \o <<line>> :
        prefix \in {<<>>, <<JunkLine>>, <<CatalogueLine>>,
                    SubSeq(FirstBlock, 1, 4), SubSeq(FirstBlock, 1, 5)},
        line \in AllLines}

\* A measure line read a second time, with the same or with other values.
RepeatInputs ==
    {FirstBlock \o <<ml>> :
        ml \in RepeatLines \cup {MeasureLine("mb", "", "5.0", "A", "o1")}}
    \cup {SubSeq(FirstBlock, 1, 5) \o
             <<uk, UKLine("6.0", "0.30", "12", "A", "o1")>> : uk \in UKLines}

\* A stream that goes on after its STOP line.
StopInputs ==
    {SubSeq(FirstBlock, 1, n) \o <<CommentLine, BlankLine, StopLine, l>> :
        n \in 0..6, l \in {JunkLine, EventLine("e2", "n1"), StopLine}}

\* An origin line of every layout, as the first origin line of an event.
OriginFieldInputs ==
    {SubSeq(FirstBlock, 1, 3) \o <<ol>> : ol \in OriginFieldLines}

\* A line of the unknown-scale pattern as the first measure of an event.
UKFieldInputs ==
    {SubSeq(FirstBlock, 1, 5) \o <<uk>> : uk \in UKFieldLines}

Scripts ==
    WellFormedInputs \cup Sandwiches \cup CrossEventInputs
    \cup ClassifierInputs \cup RepeatInputs \cup StopInputs
    \cup OriginFieldInputs \cup UKFieldInputs

InitScripted == InitWith(Scripts)

Scripted == script # <<>>
MoreLines ==
    IF Scripted THEN line_num < Len(script) ELSE line_num < MaxLines
NextLines ==
    IF ~Scripted THEN Lines
    ELSE IF line_num < Len(script) THEN {script[line_num + 1]}
    ELSE {}

\* for line_num, line in enumerate(self._file_stream, start=1): ...
ReadLine(line, conflict) ==
    /\ pc = "loop"
    /\ MoreLines
    /\ line \in NextLines
    /\ \E o \in {store_line(line, conflict, allow_junk, line_num + 1, state,
                           initial, context, working, committed, summary,
                           rollbacks)} :
           /\ line_num' = line_num + 1
           /\ line_type' =
                 detect_line_type(strip(line), is_start(state, initial))
           /\ pc' = o.pc
           /\ raised' = o.raised
           /\ state' = o.st
           /\ initial' = o.init
           /\ context' = o.ctx
           /\ working' = o.rows
           /\ summary' = o.summ
           /\ rollbacks' = o.rb
    /\ UNCHANGED <<script, allow_junk, committed, catalogue0, commits>>
    /\ UNCHANGED <<singleton_vars, harmoniser_vars, conversion_vars>>

\* The stream is exhausted: the loop ends.
EndOfStream ==
    /\ pc = "loop"
    /\ IF Scripted THEN line_num = Len(script) ELSE TRUE
    /\ pc' = "commit"
    /\ UNCHANGED <<script, allow_junk, raised, line_num, line_type, state,
                   initial, context, working, committed, catalogue0, summary,
                   commits, rollbacks>>
    /\ UNCHANGED <<singleton_vars, harmoniser_vars, conversion_vars>>

\* The end of store() with a fault: it returns without the commit.
CommitSkipped ==
    /\ pc = "commit"
    /\ pc' = "returned"
    /\ UNCHANGED <<script, allow_junk, raised, line_num, line_type, state,
                   initial, context, working, committed, catalogue0, summary,
                   commits, rollbacks>>
    /\ UNCHANGED <<singleton_vars, harmoniser_vars, conversion_vars>>

\* self._catalogue.session.commit(); return self._summary
Commit ==
    /\ pc = "commit"
    /\ committed' = session_commit(working, committed)
    /\ commits' = commits + 1
    /\ pc' = "returned"
    /\ UNCHANGED <<script, allow_junk, raised, line_num, line_type, state,
                   initial, context, working, catalogue0, summary, rollbacks>>
    /\ UNCHANGED <<singleton_vars, harmoniser_vars, conversion_vars>>

Next ==
    \/ \E line \in NextLines, conflict \in 0..2 : ReadLine(line, conflict)
    \/ EndOfStream
    \/ Commit

Spec == Init /\ [][Next]_vars

\* The runs of store() on the scripted inputs.
SpecScripted == InitScripted /\ [][Next]_vars

\* No importer is at work.
ImporterIdle ==
    /\ script = <<>>
    /\ allow_junk = TRUE
    /\ pc = "returned"
    /\ raised = NotRaised
    /\ line_num = 0
    /\ line_type = "none"
    /\ state = StartState
    /\ initial = [eventsource |-> None]
    /\ context = [agencies |-> {}, origins |-> {}]
    /\ committed = {}
    /\ catalogue0 = {}
    /\ working = {}
    /\ summary = InitialSummary
    /\ commits = 0
    /\ rollbacks = 0

\* The calls of the constructor of CatalogueDatabase and of
\* reset_singleton, in any order.
InitSingleton ==
    ImporterIdle /\ SingletonIdle /\ HarmoniserIdle /\ ConversionIdle

NextSingleton ==
    \/ \E engine \in Engines :
          Construct(engine) /\ UNCHANGED <<importer_vars, harmoniser_vars, conversion_vars>>
    \/ reset_singleton /\ UNCHANGED <<importer_vars, harmoniser_vars, conversion_vars>>

SpecSingleton == InitSingleton /\ [][NextSingleton]_vars

\* A harmoniser to which formulas are added and which is then asked to
\* harmonise.
InitHarmoniser ==
    ImporterIdle /\ SingletonIdle /\ HarmoniserInit /\ ConversionIdle

NextHarmoniser ==
    \/ \E formula \in FormulaAlphabet :
          add_conversion_formula(formula)
             /\ UNCHANGED <<importer_vars, singleton_vars, conversion_vars>>
    \/ \E measures \in MeasureInputs, allow \in BOOLEAN :
          Harmonise(measures, allow)
             /\ UNCHANGED <<importer_vars, singleton_vars, conversion_vars>>

SpecHarmoniser == InitHarmoniser /\ [][NextHarmoniser]_vars

\* A measure that is converted by one formula after the other.
InitConversion ==
    ImporterIdle /\ SingletonIdle /\ HarmoniserIdle /\ ConversionInit

NextConversion ==
    \E formula \in FormulaAlphabet :
       Convert(formula)
          /\ UNCHANGED <<importer_vars, singleton_vars, harmoniser_vars>>

SpecConversion == InitConversion /\ [][NextConversion]_vars


-----------------------------------------------------------------------------
(* Properties of Importer.store.                                           *)

Errors == summary.errors
Count(kind) == summary.counts[kind]

\* The natural keys of a set of rows.
Keys(rows) == {[kind |-> r.kind, key |-> r.key] : r \in rows}

\* A step of the loop that reads a line that is no comment and no stop.
TriesLine ==
    /\ pc = "loop"
    /\ line_num' = line_num + 1
    /\ line_type' \notin {"comment", "stop"}

\* C1: store() either returns the summary or raises the parsing failure of
\* a persistence conflict; no invalid transition and no field decoding
\* condition (a min/max indicator, an unknown origin id, an unknown
\* analysis type code) reaches the caller.
C1_OnlyConflictEscapes ==
    pc = "raised" => raised.type = "ParsingFailure"

\* C2: a recoverable error at line n leaves every record found or created
\* before n in the transaction, and so in the store after the final commit;
\* the transaction is rolled back only when a persistence conflict is
\* raised.
C2_RecoveryKeepsRecords ==
    [][/\ (pc' # "raised") => (Keys(working) \subseteq Keys(working'))
       /\ (rollbacks' # rollbacks) => (raised'.type = "ParsingFailure")
       /\ (pc' = "returned") => (committed' = working)]_vars

\* C3: a persistence conflict while line n is decoded rolls the transaction
\* back and raises a parsing failure carrying n; no commit is issued, no
\* further line is processed, and nothing found or created in the run is
\* committed.
C3_FatalConflict ==
    /\ [](raised.type = "ParsingFailure" =>
            /\ pc = "raised"
            /\ raised.line = line_num
            /\ commits = 0
            /\ rollbacks >= 1
            /\ working = committed
            /\ committed = catalogue0)
    /\ [][/\ pc # "raised"
          /\ (raised'.type = "ParsingFailure") =>
                (rollbacks' = rollbacks + 1 /\ summary' = summary)]_vars

C3_Witness ==
    /\ raised.type = "ParsingFailure"
    /\ line_type = "measure_block"
    /\ Count("measure") = 1
    /\ catalogue0 = {}

\* The transition table of the parser states: [from, on, to].
TransitionTable ==
    {[from |-> "Start", on |-> "catalogue_header", to |-> "Start"],
     [from |-> "Start", on |-> "event_header", to |-> "Event"],
     [from |-> "Event", on |-> "origin_header", to |-> "OriginHeader"],
     [from |-> "OriginHeader", on |-> "origin_block", to |-> "OriginBlock"],
     [from |-> "OriginBlock", on |-> "measure_header",
      to |-> "MeasureHeader"],
     [from |-> "OriginBlock", on |-> "origin_block", to |-> "OriginBlock"],
     [from |-> "OriginBlock", on |-> "event_header", to |-> "Event"],
     [from |-> "MeasureHeader", on |-> "measure_block",
      to |-> "MeasureBlock"],
     [from |-> "MeasureHeader", on |-> "measure_unknown_scale_block",
      to |-> "MeasureUKScaleBlock"]}
    \cup {[from |-> f, on |-> "event_header", to |-> "Event"] :
             f \in {"MeasureBlock", "MeasureUKScaleBlock"}}
    \cup {[from |-> f, on |-> "measure_block", to |-> "MeasureBlock"] :
             f \in {"MeasureBlock", "MeasureUKScaleBlock"}}
    \cup {[from |-> f, on |-> "measure_unknown_scale_block",
           to |-> "MeasureUKScaleBlock"] :
             f \in {"MeasureBlock", "MeasureUKScaleBlock"}}

\* The entries of the table for the current state and a line kind: Start
\* takes an event header only with an event source, Event an origin header
\* only with its event set.
TableEntries(kind) ==
    {e \in TransitionTable :
        /\ e.from = state.tag
        /\ e.on = kind
        /\ (e.from = "Start" /\ kind = "event_header")
              => initial.eventsource # None
        /\ (e.from = "Event") => state.event # None}

\* C4: the next-state function is the transition table, for every state
\* and line kind; every other pair is an invalid transition, and the state
\* is still the current one when it is raised: the line is then ignored
\* with the state kept, or recorded as an error with the state reset.
C4_TransitionTable ==
    /\ [](\A kind \in LineKinds :
            LET nx == get_next_state(state, initial, kind)
            IN  IF TableEntries(kind) = {}
                THEN nx = None
                ELSE /\ nx # None
                     /\ \A e \in TableEntries(kind) : nx.tag = e.to)
    /\ [][(TriesLine /\ TableEntries(line_type') = {}) =>
            /\ pc' = "loop"
            /\ initial' = initial /\ context' = context
            /\ \/ state' = state /\ summary' = summary
               \/ /\ state' = StartState
                  /\ Errors' = Append(Errors, line_num')
                  /\ summary'.counts = summary.counts]_vars

C4_Witness ==
    /\ state.tag = "MeasureUKScaleBlock"
    /\ Errors # <<>>
    /\ get_next_state(state, initial, "origin_header") = None
    /\ get_next_state(state, initial, "measure_block").tag = "MeasureBlock"


\* The natural keys a well-formed single-event input decodes.
DecodedKeys(input) ==
    LET ev == [source_key |-> input[2].key, eventsource |-> ISC]
        og == [source_key |-> input[4].origid, eventsource |-> ISC]
        Agency(line) == [source_key |-> line.author, eventsource |-> ISC]
    IN  {[kind |-> "eventsource", key |-> ISC],
         [kind |-> "event", key |-> ev],
         [kind |-> "agency", key |-> Agency(input[4])],
         [kind |-> "agency", key |-> Agency(input[6])],
         [kind |-> "origin", key |-> og],
         [kind |-> "measure",
          key |-> [event |-> ev, origin |-> og, agency |-> Agency(input[6]),
                   scale |-> IF input[6].uk THEN "Muk" ELSE input[6].scale]]}

\* The events and the measures of the rows.
RowsOf(rows, kind) == {r \in rows : r.kind = kind}

\* C5: a single-event block, one invalid line (line 7) and a second
\* single-event block: the run ends with the one parse error of line 7,
\* both events and both measures counted and in the store after the final
\* commit, and the parser in Start right after the error.
C5_SandwichRecovery ==
    (script \in Sandwiches /\ catalogue0 = {}) =>
        /\ (pc = "loop" /\ line_num = 7) =>
              (state = StartState /\ Errors = <<7>>)
        /\ (pc = "returned") =>
              /\ Errors = <<7>>
              /\ Count("event") = 2 /\ Count("measure") = 2
              /\ Cardinality(RowsOf(committed, "event")) = 2
              /\ Cardinality(RowsOf(committed, "measure")) = 2

\* C6: store() on a well-formed input whose natural keys are all in the
\* catalogue already returns a summary with every count zero, and leaves
\* the catalogue with the records it had.
C6_Idempotence ==
    (/\ script \in WellFormedInputs
     /\ DecodedKeys(script) \subseteq Keys(catalogue0)
     /\ pc = "returned") =>
        /\ \A k \in EntityKinds : Count(k) = 0
        /\ Keys(committed) = Keys(catalogue0)

\* C7: store() on a well-formed single-event input and an empty catalogue
\* returns a summary with count 1 for the event source, the event, the
\* agency, the origin and the measure, and no error.
C7_SingleEventSummary ==
    (script \in WellFormedInputs /\ catalogue0 = {} /\ pc = "returned") =>
        /\ \A k \in EntityKinds : Count(k) = 1
        /\ Errors = <<>>

C7_Witness ==
    /\ script \in WellFormedInputs
    /\ catalogue0 = {}
    /\ pc = "returned"
    /\ script[6].author # script[4].author
    /\ Cardinality(RowsOf(committed, "measure")) = 1

\* C8: a run of store() that returns commits exactly once, after the last
\* line it processes; no commit is issued while lines are processed, and
\* none in a run that raises.
C8_CommitOnce ==
    /\ [](commits = IF pc = "returned" THEN 1 ELSE 0)
    /\ [][/\ pc # "returned"
          /\ (commits' # commits) => (pc = "commit" /\ line_num' = line_num)
         ]_vars

C8_Witness ==
    /\ pc = "returned"
    /\ commits = 1
    /\ line_type = "stop"
    /\ rollbacks >= 1

\* C9: a junk line before the first catalogue header is skipped when
\* allow_junk is set, with no parse error, no change of state and no change
\* of the summary; without allow_junk it is recorded as a parse error.
C9_LeadingJunk ==
    [][(TriesLine /\ initial.eventsource = None /\ line_type' = "junk") =>
          IF allow_junk
          THEN /\ pc' = "loop"
               /\ UNCHANGED <<state, initial, context, summary, working,
                              rollbacks>>
          ELSE /\ pc' = "loop"
               /\ Errors' = Append(Errors, line_num')
               /\ summary'.counts = summary.counts]_vars

C9_Witness ==
    /\ allow_junk
    /\ line_type = "junk"
    /\ initial.eventsource = None
    /\ line_num = 2
    /\ Errors = <<>>

\* C10 as stated: in the Start state, initial or after a catalogue header
\* or after a recovery reset, a junk line is ignored when allow_junk is
\* set: no parse error, no change of state.
C10_JunkIgnoredInStart ==
    [][(TriesLine /\ state.tag = "Start" /\ line_type' = "junk"
          /\ allow_junk) =>
          (Errors' = Errors /\ state' = state)]_vars

\* C10 amended: in the Start state with no event source established (the
\* initial state, and the state after a recovery reset that precedes the
\* first decoded catalogue header) a junk line is ignored when allow_junk
\* is set: no parse error, no change of state.  Once a catalogue header has
\* been decoded, a junk line in Start is recorded as a parse error.
C10_JunkIgnoredAtStart ==
    [][(TriesLine /\ state.tag = "Start" /\ line_type' = "junk"
          /\ allow_junk) =>
          IF initial.eventsource = None
          THEN Errors' = Errors /\ state' = state
          ELSE Errors' = Append(Errors, line_num') /\ state' = StartState
       ]_vars

C10_Witness ==
    /\ allow_junk
    /\ line_type = "junk"
    /\ state.tag = "Start"
    /\ initial.eventsource = None
    /\ Errors = <<1>>
    /\ line_num = 2


-----------------------------------------------------------------------------
(* Properties of the context maps and of the decoding of measures.         *)

EmptyContext == [agencies |-> {}, origins |-> {}]

\* A step of the loop that records a parse error and resets the parser.
Recovers == pc = "loop" /\ pc' = "loop" /\ Errors' # Errors

\* C11: the context maps (agencies by key, origins by key) are empty when
\* an import starts, and are empty again after every recovery that resets
\* the parser to Start: no entry added before a recoverable error is seen
\* by the lines after it.
C11_ContextReset ==
    /\ [](line_num = 0 => context = EmptyContext)
    /\ [][Recovers => (state' = StartState /\ context' = EmptyContext)]_vars

\* The origin ids decoded by the origin block lines of the event that line
\* n of the scripted input belongs to: those between the last event header
\* before n and n.
LastEventHeader(n) ==
    LET headers == {i \in 1..(n - 1) : script[i].form = "Event"}
    IN  IF headers = {} THEN 0
        ELSE CHOOSE i \in headers : \A j \in headers : j <= i
OriginsOfEvent(n) ==
    {script[i].origid : i \in {j \in (LastEventHeader(n) + 1)..(n - 1) : script[j].len = 136}}

\* A step that reads a measure line in a state that takes measure lines.
ReadsMeasure ==
    /\ TriesLine
    /\ line_type' \in {"measure_block", "measure_unknown_scale_block"}
    /\ state.tag \in {"MeasureHeader", "MeasureBlock", "MeasureUKScaleBlock"}

\* C12: a measure line whose origin id was not decoded by an origin block
\* of the current event, even if an earlier event of the run decoded it,
\* fails to decode, and no measure is created.
C12_OriginOfSameEvent ==
    [][(/\ Scripted
        /\ ReadsMeasure
        /\ script[line_num'].origid \notin OriginsOfEvent(line_num')) =>
          /\ pc' = "raised" \/ Errors' # Errors
          /\ RowsOf(working', "measure") \subseteq RowsOf(working, "measure")
          /\ Count("measure")' = Count("measure")]_vars

\* C13: a measure block line with a min/max indicator is a recoverable
\* decoding failure: a parse error with its line number is appended, no
\* measure is created, the state is reset to Start, and the loop goes on.
C13_MinMaxRecoverable ==
    [][\A line \in MeasureLines, conflict \in 0..2 :
          (/\ line.minmax # ""
           /\ ReadsMeasure
           /\ line_type' = "measure_block"
           /\ ReadLine(line, conflict)) =>
              /\ pc' = "loop"
              /\ Errors' = Append(Errors, line_num')
              /\ state' = StartState
              /\ Count("measure")' = Count("measure")
              /\ RowsOf(working', "measure") \subseteq
                     RowsOf(working, "measure")]_vars


-----------------------------------------------------------------------------
(* Properties of the classifier and of the parser states.                  *)

\* The tests of the classifier in their order: <<test, kind>>.
ClassificationRules(line, flag) ==
    << <<line.form = "ISC Bulletin", "catalogue_header">>,
       <<line.form = "STOP", "stop">>,
       <<line.form \in {"(comment)", "blank"}, "comment">>,
       <<line.form = "origin titles", "origin_header">>,
       <<line.form = "measure titles", "measure_header">>,
       <<line.form = "Event", "event_header">>,
       <<line.len = 136 /\ ~flag, "origin_block">>,
       <<line.len = 38 /\ ~flag, "measure_block">>,
       <<line.uk, "measure_unknown_scale_block">>,
       <<TRUE, "junk">> >>

\* The kind of the first test that succeeds.
FirstMatch(line, flag) ==
    LET rules == ClassificationRules(line, flag)
        first == CHOOSE i \in 1..Len(rules) :
                    rules[i][1] /\ \A j \in 1..(i - 1) : ~rules[j][1]
    IN  rules[first][2]

\* C14: the kind of a line is a function of its content and of is_start()
\* of the current state: the kind of the first test that succeeds, in the
\* order catalogue header, stop, comment or blank, origin titles, measure
\* titles, event header, length 136, length 38, unknown-scale pattern,
\* junk.  It is one of the ten kinds, never origin_block or measure_block
\* while is_start() holds, and classifying changes neither the state, nor
\* the context, nor the summary.
C14_Classification ==
    [][(Scripted /\ pc = "loop" /\ line_num' = line_num + 1) =>
          LET line == script[line_num']
              flag == is_start(state, initial)
          IN  /\ line_type' = FirstMatch(line, flag)
              /\ line_type' \in LineKinds
              /\ flag => line_type' \notin {"origin_block", "measure_block"}
              /\ line_type' \in {"comment", "stop"} =>
                    UNCHANGED <<state, initial, context, summary, working>>
      ]_vars

C14_Witness ==
    /\ Scripted
    /\ line_num = 6
    /\ script[6].uk /\ script[6].len = 38
    /\ line_type = "measure_block"
    /\ state.tag = "MeasureBlock"


\* A step that decodes a catalogue header: the header is read in the Start
\* state and store() goes on.
DecodesCatalogueHeader ==
    /\ TriesLine
    /\ line_type' = "catalogue_header"
    /\ state.tag = "Start"
    /\ pc' = "loop"

\* C15: is_start() of the current state holds from the start of the run
\* up to the first catalogue header that is decoded, and never after it,
\* the Start state reached by a recovery reset included.
C15_StartFlag ==
    /\ [](line_num = 0 => is_start(state, initial))
    /\ [][IF DecodesCatalogueHeader
          THEN ~is_start(state', initial')
          ELSE is_start(state', initial') = is_start(state, initial)]_vars

C15_Witness ==
    /\ state = StartState
    /\ ~is_start(state, initial)
    /\ line_type = "junk"
    /\ Errors = <<1, 3>>
    /\ pc = "loop"


\* The states that are constructed with an event, and those constructed
\* with the metadata of the origin block.
HoldEvent ==
    {"OriginHeader", "OriginBlock", "MeasureHeader", "MeasureBlock",
     "MeasureUKScaleBlock"}
HoldMetadata == {"MeasureHeader", "MeasureBlock", "MeasureUKScaleBlock"}

\* C16: the current state always holds the references of its class, set by
\* earlier lines of the run: the Event state the event source of the
\* catalogue header, the states of the origin and measure blocks an event
\* of that event source, the states of the measure block the metadata of
\* an origin line.
C16_StateReferences ==
    /\ state.tag \in StateTags
    /\ state.tag = "Event" =>
          /\ state.eventsource # None
          /\ state.eventsource = initial.eventsource
    /\ state.tag \in HoldEvent =>
          /\ state.event # None
          /\ state.event.eventsource = initial.eventsource
          /\ line_num >= 2
    /\ state.tag \in HoldMetadata =>
          /\ state.metadata # None
          /\ Count("origin") >= 1

C16_Witness ==
    /\ state.tag = "MeasureUKScaleBlock"
    /\ state.event # None
    /\ state.metadata # None
    /\ rollbacks = 1
    /\ pc = "loop"


-----------------------------------------------------------------------------
(* Properties of the summary.                                              *)

IsPrefix(s, t) == Len(s) <= Len(t) /\ SubSeq(t, 1, Len(s)) = s

\* C17: the summary is never rolled back: in every step of a run each
\* count stays or grows and the error list stays or is appended to, the
\* steps that roll the transaction back included.
C17_SummaryKept ==
    [][/\ \A k \in EntityKinds : Count(k)' >= Count(k)
       /\ IsPrefix(Errors, Errors')]_vars

C17_Witness ==
    /\ rollbacks = 2
    /\ Count("event") = 1 /\ Count("origin") = 1
    /\ RowsOf(working, "event") = {}
    /\ RowsOf(working, "origin") = {}
    /\ Len(Errors) = 1
    /\ pc = "raised"

\* C18: a parse error carries the 1-based position in the stream of the
\* line that caused it, comment and blank lines counted; a line adds at
\* most one error, so the error list is strictly increasing.
C18_ErrorLineNumbers ==
    /\ [](/\ \A i \in 1..Len(Errors) : Errors[i] \in 1..line_num
          /\ \A i \in 1..(Len(Errors) - 1) : Errors[i] < Errors[i + 1])
    /\ [][/\ (pc = "loop" /\ pc' # "commit") => line_num' = line_num + 1
          /\ line_num' \in {line_num, line_num + 1}
          /\ (line_type' = "comment" /\ line_num' # line_num) =>
                Errors' = Errors
          /\ (Errors' # Errors) =>
                (line_num' = line_num + 1
                 /\ Errors' = Append(Errors, line_num'))]_vars

C18_Witness ==
    /\ Errors = <<2, 5>>
    /\ line_num = 5
    /\ line_type = "measure_block"
    /\ initial.eventsource # None


\* A step that decodes a line of the given kind: store() goes on and no
\* error is recorded.
Decodes(kind) ==
    /\ TriesLine
    /\ line_type' = kind
    /\ pc' = "loop"
    /\ Errors' = Errors

\* C19: an origin block line adds one to the origin count when its origin
\* (origin id and event source) is created, and leaves the count as it is
\* when the origin exists already.
C19_OriginCount ==
    [][Decodes("origin_block") =>
          Count("origin")' = Count("origin")
             + Cardinality(RowsOf(working', "origin")
                           \ RowsOf(working, "origin"))]_vars

\* C20: after an event header 'Event <source_key> <name>' is decoded there
\* is exactly one event of that source key and event source, its name is
\* the decoded one (the name of an event that exists is updated), and the
\* event count grows by one if the event was created and not otherwise.
C20_EventHeader ==
    [][\A line \in EventLines, conflict \in 0..2 :
          (Decodes("event_header") /\ ReadLine(line, conflict)) =>
              LET key == [source_key |-> line.key,
                          eventsource |-> initial.eventsource]
                  found == queryset(working', "event", key)
                  existed == queryset(working, "event", key) # {}
              IN  /\ state'.tag = "Event" /\ state'.event = key
                  /\ Cardinality(found) = 1
                  /\ \A r \in found : r.data.name = line.name
                  /\ RowsOf(working', "event") \ found =
                        RowsOf(working, "event")
                           \ queryset(working, "event", key)
                  /\ Count("event")' = Count("event")
                        + (IF existed THEN 0 ELSE 1)]_vars

C20_Witness ==
    /\ catalogue0 = ImportedCatalogue
    /\ state.tag = "Event"
    /\ line_type = "event_header"
    /\ Count("event") = 0
    /\ \E r \in RowsOf(working, "event") :
          r.key.source_key = "e1" /\ r.data.name = "n2"
    /\ \E r \in RowsOf(committed, "event") :
          r.key.source_key = "e1" /\ r.data.name = "n1"


-----------------------------------------------------------------------------
(* Properties of the records and of the lines that are skipped.            *)

\* The key of the measure that line n of the scripted input decodes to in
\* the state st with the context ctx.
MeasureKey(n, st, ctx) ==
    [event |-> st.event,
     origin |-> dict_get(ctx.origins, script[n].origid),
     agency |-> [source_key |-> script[n].author, eventsource |-> st.event.eventsource],
     scale |-> IF line_type' = "measure_block" THEN script[n].scale ELSE "Muk"]

\* C21: a measure is keyed by event, origin, agency and scale: a measure
\* line whose key is the key of a measure of the store creates no measure,
\* whatever its value and standard error, leaves the value and the
\* standard error of that measure as they are, and leaves the measure
\* count as it is.
C21_MeasureKey ==
    [][(/\ Scripted
        /\ ReadsMeasure
        /\ Decodes(line_type')
        /\ queryset(working, "measure", MeasureKey(line_num', state', context)) # {}) =>
          /\ RowsOf(working', "measure") = RowsOf(working, "measure")
          /\ Count("measure")' = Count("measure")]_vars

C21_Witness ==
    /\ script \in RepeatInputs
    /\ line_num = 7
    /\ script[7].value = "6.0"
    /\ script[7].scale = "mb"
    /\ state.tag = "MeasureBlock"
    /\ Count("measure") = 1
    /\ \A r \in RowsOf(working, "measure") : r.data.value = float("5.0")

\* C22: a comment or blank line changes neither the state, nor the
\* context, nor the summary, nor the session, in any state; a STOP line
\* ends the loop: no later line of the stream is read, and the next thing
\* store() does is the final commit.
C22_SkippedLines ==
    /\ [][(pc = "loop" /\ line_num' = line_num + 1
              /\ line_type' \in {"comment", "stop"}) =>
            /\ UNCHANGED <<state, initial, context, summary, working,
                           committed, commits, rollbacks, raised>>
            /\ pc' = IF line_type' = "stop" THEN "commit" ELSE "loop"]_vars
    /\ [][(pc = "commit") =>
            /\ pc' = "returned" /\ commits' = commits + 1
            /\ committed' = working
            /\ UNCHANGED <<line_num, line_type, state, context, summary>>
         ]_vars
    /\ [][(pc = "returned") => FALSE]_vars

C22_Witness ==
    /\ script \in StopInputs
    /\ pc = "returned"
    /\ line_type = "stop"
    /\ line_num = Len(script) - 1
    /\ commits = 1
    /\ state.tag = "MeasureHeader"
    /\ Count("origin") = 1


-----------------------------------------------------------------------------
(* Properties of the decoding of the columns.                              *)

\* The origins that a step creates.
CreatedOrigins == RowsOf(working', "origin") \ RowsOf(working, "origin")

\* C23: the optional columns of an origin line: a blank column decodes to
\* None; the time error is None when the time is marked fixed, whatever
\* the time error columns hold; both axes of the error ellipse are None
\* when the position is marked fixed; the depth error is None when the
\* depth is marked fixed; a blank depth decodes to None.  A column that is
\* read decodes to its number.
C23_OptionalColumns ==
    [][(Scripted /\ Decodes("origin_block")) =>
          LET line == script[line_num']
          IN  \A r \in CreatedOrigins :
                /\ r.key.source_key = line.origid
                /\ (line.tfix = "f" \/ line.terr = "")
                      => r.data.time_error = None
                /\ (line.tfix # "f" /\ line.terr = "0.30")
                      => r.data.time_error = [float |-> 30]
                /\ (line.pfix = "f") =>
                      /\ r.data.semi_major_90error = None
                      /\ r.data.semi_minor_90error = None
                /\ (line.smaj = "") => r.data.semi_major_90error = None
                /\ (line.smin = "") => r.data.semi_minor_90error = None
                /\ (line.pfix # "f" /\ line.smaj = "5.0")
                      => r.data.semi_major_90error = [float |-> 500]
                /\ (line.pfix # "f" /\ line.smin = "6.0")
                      => r.data.semi_minor_90error = [float |-> 600]
                /\ (line.depth = "") => r.data.depth = None
                /\ (line.depth = "12") => r.data.depth = [float |-> 1200]
                /\ (line.dfix = "f" \/ line.derr = "")
                      => r.data.depth_error = None
                /\ (line.dfix # "f" /\ line.derr = "0.30")
                      => r.data.depth_error = [float |-> 30]]_vars

C23_Witness ==
    /\ script \in OriginFieldInputs
    /\ line_num = 4
    /\ script[4].tfix = "f" /\ script[4].terr = "??"
    /\ state.tag = "OriginBlock"
    /\ Errors = <<>>
    /\ \E r \in RowsOf(working, "origin") \ RowsOf(catalogue0, "origin") :
          r.data.time_error = None


\* The measures that a step creates.
CreatedMeasures == RowsOf(working', "measure") \ RowsOf(working, "measure")

\* C24: a line 'value [error] [stations] agency origin' decodes to a
\* measure of scale 'Muk' whose value and standard error are the numbers
\* of the first two fields, with the station count of the third, the
\* agency and the origin named by the last two; an error or a station
\* count that is missing decodes to None.
C24_UnknownScaleMeasure ==
    [][(Scripted /\ Decodes("measure_unknown_scale_block")) =>
          LET line == script[line_num']
          IN  /\ state'.tag = "MeasureUKScaleBlock"
              /\ state'.metadata.stations = optional_int(line.nsta)
              /\ \A r \in CreatedMeasures :
                    /\ r.key.scale = "Muk"
                    /\ r.key.agency.source_key = line.author
                    /\ r.key.origin.source_key = line.origid
                    /\ r.data.value = float(line.value)
                    /\ r.data.standard_error = optional_float(line.err)
      ]_vars


\* At most one record of a kind has a given natural key.
UniqueKeys(rows) ==
    \A r1, r2 \in rows : (r1.kind = r2.kind /\ r1.key = r2.key) => r1 = r2

\* Natural keys to call get_or_create with: those of the session's records
\* and some of no record.
ProbeKeys ==
    Keys(working)
    \cup {[kind |-> "eventsource", key |-> [name |-> "other"]],
          [kind |-> "event", key |-> [source_key |-> "e9", eventsource |-> ISC]]}

\* C25: get_or_create on a natural key of a record returns created =
\* False and adds nothing; on another key it adds exactly one record, of
\* that key, and returns created = True.  A store with at most one record
\* for each natural key stays so under any sequence of calls.
C25_GetOrCreate ==
    /\ UniqueKeys(working) /\ UniqueKeys(committed)
    /\ \A p \in ProbeKeys :
          LET found == queryset(working, p.kind, p.key)
              got == get_or_create(working, p.kind, p.key, None)
          IN  /\ UniqueKeys(got.rows)
              /\ IF found # {}
                 THEN ~got.created /\ got.rows = working
                 ELSE /\ got.created
                      /\ working \subseteq got.rows
                      /\ got.rows \ working = {Row(p.kind, p.key, None)}

C25_Witness ==
    /\ catalogue0 = ImportedCatalogue
    /\ Count("eventsource") = 0 /\ Count("event") = 1
    /\ Count("agency") = 1 /\ Count("measure") = 1
    /\ Cardinality(RowsOf(working, "event")) = 2
    /\ Cardinality(RowsOf(working, "measure")) = 2
    /\ UniqueKeys(working)


\* The records that a record refers to, as natural keys.
References(r) ==
    CASE r.kind = "eventsource" -> {}
      [] r.kind \in {"event", "agency", "origin"} ->
            {[kind |-> "eventsource", key |-> r.key.eventsource]}
      [] r.kind = "measure" ->
            {[kind |-> "event", key |-> r.key.event],
             [kind |-> "origin", key |-> r.key.origin],
             [kind |-> "agency", key |-> r.key.agency]}

\* Every record of the rows refers only to records of the rows.
Closed(rows) == \A r \in rows : References(r) \subseteq Keys(rows)

\* The records that the parser holds: the event source of the Start state,
\* the event of the current state, the agencies and origins of the context.
Held ==
    (IF initial.eventsource = None THEN {}
     ELSE {[kind |-> "eventsource", key |-> initial.eventsource]})
    \cup (IF state.event = None THEN {}
          ELSE {[kind |-> "event", key |-> state.event]})
    \cup {[kind |-> "agency", key |-> e.v] : e \in context.agencies}
    \cup {[kind |-> "origin", key |-> e.v] : e \in context.origins}

\* C30: in a run that returns, every event, origin, agency and measure of
\* the store after the final commit refers only to records of the store;
\* the records that the Start state and the context hold across a
\* recovery are still in the session when later lines refer to them.
C30_ReferentialIntegrity ==
    /\ (pc = "returned") => Closed(committed)
    /\ (pc = "loop") => Held \subseteq Keys(working)

-----------------------------------------------------------------------------
(* CatalogueDatabase as a singleton.                                       *)

-----------------------------------------------------------------------------
(* The harmoniser.                                                         *)

\* One measure of each scale, to ask find_formulas_for about.
ProbeMeasures == {MagnitudeMeasure(0, sc) : sc \in Scales}

\* What find_formulas_for does for the measure m with the formulas and the
\* target scale of the harmoniser.
Found(m) == find_formulas_for(formulas, key_order, m, target_scale)

\* C26: a non-empty list that find_formulas_for returns applies formula by
\* formula from the measure on, each formula taking the result of the one
\* before, and ends in the target scale; harmonise therefore never raises
\* when it applies the list.
C26_ReturnedPathApplies ==
    /\ \A m \in ProbeMeasures :
          (Found(m).does = "returns a list" /\ Found(m).list # <<>>) =>
              /\ apply_all(Found(m).list, m).exc = "none"
              /\ apply_all(Found(m).list, m).measure.scale = target_scale
    /\ harmonised.status # "raised"

\* C27: find_formulas_for returns None for a measure that is in the target
\* scale already, and a list of one formula when a formula of the target
\* scale takes the measure.
C27_NoneOrSingle ==
    \A m \in ProbeMeasures :
       /\ m.scale = target_scale => Found(m).does = "returns None"
       /\ applicable_in(formulas[target_scale], m) # <<>> =>
             /\ Found(m).does = "returns a list"
             /\ Len(Found(m).list) = 1

\* The input measures that the last call of harmonise put in converted,
\* and those it put in unconverted.
InConverted == {c.key : c \in harmonised.converted}

InUnconverted == {harmonised.unconverted[i] : i \in 1..Len(harmonised.unconverted)}

InputMeasures == {harmonised.measures[i] : i \in 1..Len(harmonised.measures)}

\* C28: when harmonise returns, every input measure is a key of converted
\* or an element of unconverted and never both, and nothing else is in
\* either; a measure of the target scale for which find_formulas_for gave
\* no formulas is in converted, with itself as the result and no formulas,
\* if allow_trivial_conversion is true, and in unconverted if it is false.
C28_Partition ==
    harmonised.status = "returned" =>
       /\ InConverted \cup InUnconverted = InputMeasures
       /\ InConverted \cap InUnconverted = {}
       /\ Cardinality(InConverted) = Cardinality(harmonised.converted)
       /\ \A m \in InputMeasures :
             (m.scale = target_scale /\ Found(m).list = <<>>) =>
                IF harmonised.allow
                THEN [key |-> m, measure |-> m, formulas |-> <<>>] \in harmonised.converted
                ELSE m \in InUnconverted

\* harmonise returned with a measure converted by formulas, a measure of
\* the target scale converted trivially and a measure left unconverted.
C28_Witness ==
    /\ harmonised.status = "returned"
    /\ harmonised.allow
    /\ \E c \in harmonised.converted : c.formulas = <<>> /\ c.measure = c.key
    /\ \E c \in harmonised.converted : Len(c.formulas) = 2
    /\ harmonised.unconverted # <<>>

-----------------------------------------------------------------------------
(* Recovery.                                                               *)

\* C31: a recovery resets the parser to the one Start state, which keeps
\* the event source it holds.  Once an error has been recorded, an event
\* header read in the Start state is accepted (Start -> Event, with the
\* event source of the catalogue header decoded earlier, no error
\* recorded) if a catalogue header was decoded before, and is rejected
\* (one more error, the parser stays in Start) if none was.
C31_RecoveryTarget ==
    /\ [][Recovers => (state' = StartState /\ initial' = initial)]_vars
    /\ [][(/\ TriesLine
           /\ line_type' = "event_header"
           /\ state.tag = "Start"
           /\ Errors # <<>>) =>
              IF initial.eventsource # None
              THEN /\ state'.tag = "Event"
                   /\ state'.eventsource = initial.eventsource
                   /\ Errors' = Errors
              ELSE /\ state' = StartState
                   /\ pc' = "loop"
                   /\ Errors' = Append(Errors, line_num')]_vars

\* A catalogue header at line 1, an error at line 2, and the event header
\* of line 3 accepted.
C31_Witness ==
    /\ line_num = 3
    /\ line_type = "event_header"
    /\ Errors = <<2>>
    /\ state.tag = "Event"
    /\ state.eventsource = ISC
    /\ pc = "loop"

\* The kinds of line that nothing accepts in the Start state.
CascadeKinds ==
    {"origin_header", "origin_block", "measure_header", "measure_block",
     "measure_unknown_scale_block", "junk"}

\* C32: every line is read once, the line of an error included.  In a run
\* that has an event source, once an error has reset the parser to Start
\* every line classified as column titles, an origin or measure block
\* line, a line of the unknown-scale pattern or junk is recorded as one
\* parse error, whatever allow_junk says, and leaves the parser in Start
\* and the counts as they are: this goes on until an event header is read.
C32_ErrorCascade ==
    /\ [][line_num' \in {line_num, line_num + 1}]_vars
    /\ [][Recovers => line_num' = line_num + 1]_vars
    /\ [][(/\ TriesLine
           /\ state.tag = "Start"
           /\ initial.eventsource # None
           /\ Errors # <<>>
           /\ line_type' \in CascadeKinds) =>
              /\ Errors' = Append(Errors, line_num')
              /\ state' = StartState
              /\ initial' = initial
              /\ pc' = "loop"
              /\ summary'.counts = summary.counts]_vars

\* With allow_junk true: an error at line 3, then a measure block line, a
\* junk line and column titles, each recorded as an error.
C32_Witness ==
    /\ allow_junk
    /\ Errors = <<3, 4, 5, 6>>
    /\ line_type = "origin_header"
    /\ state = StartState
    /\ initial.eventsource = ISC
    /\ \E r \in working : r.kind = "event"

-----------------------------------------------------------------------------
(* The transaction at the exits of store().                                *)

\* C33: store() is left with the transaction closed.  It returns after the
\* final commit, with nothing pending; whenever it raises, a rollback has
\* been issued and nothing found or created is left pending in the
\* session.
C33_TransactionClosed ==
    /\ pc = "returned" => (commits = 1 /\ working = committed)
    /\ pc = "raised" => (rollbacks >= 1 /\ working = committed)

-----------------------------------------------------------------------------
(* The summary of a line that fails.                                       *)

\* C34: a line whose transition or decoding fails with an error that
\* store() recovers from leaves every count of the summary as it was and
\* adds its number, and nothing else, to the errors; this holds also when
\* the line had found or created a record before it failed, as the agency
\* of an origin line whose origin columns do not decode.  Junk that is
\* ignored at the start changes nothing in the summary.
C34_FailedLineCounts ==
    /\ [][Recovers =>
             /\ summary'.counts = summary.counts
             /\ Errors' = Append(Errors, line_num')]_vars
    /\ [][(/\ TriesLine
           /\ line_type' = "junk"
           /\ is_start(state, initial)
           /\ allow_junk) => summary' = summary]_vars

\* The origin line at line 4 failed after its agency had been found or
\* created and put in the context: no agency is counted.
C34_Witness ==
    /\ catalogue0 = {}
    /\ line_num = 4
    /\ line_type = "origin_block"
    /\ Errors = <<4>>
    /\ dict_has(context.agencies, "A")
    /\ Count("agency") = 0
    /\ Count("event") = 1

-----------------------------------------------------------------------------
(* Termination of the search for formulas.                                 *)

\* C35: find_formulas_for returns for every measure, whatever formulas are
\* registered, also when a formula converts a scale A to B and another B
\* to A and neither scale is the target scale.
C35_SearchTerminates ==
    \A m \in ProbeMeasures : Found(m).does # "never returns"

-----------------------------------------------------------------------------
(* The metadata handed from the origin block to the measures.              *)

\* The metadata that an origin line holds.
MetadataOf(line) ==
    [strike |-> IF line.strike = "" THEN NoValue ELSE line.strike,
     stations |-> IF line.nsta = "" THEN None ELSE int(line.nsta),
     analysis_type |->
        IF line.qual = "" THEN NoValue
        ELSE (CHOOSE e \in ANALYSIS_TYPES : e.k = line.qual).v]

\* The station count that a measure line of the kind holds.
StationsOf(line, kind) ==
    IF line.nsta = "" THEN None
    ELSE IF kind = "measure_block" THEN int(line.nsta)
    ELSE [text |-> line.nsta]

\* C36: the metadata that the states of the measure titles and of the
\* measure lines hold are those of the origin line decoded last: an origin
\* line that is decoded sets all of them anew, the measure titles hand them
\* on unchanged, and a measure line that is decoded hands them on with the
\* station count replaced by the one of its own stations column.
C36_PendingMetadata ==
    /\ [][\A line \in OriginLines, conflict \in 0..2 :
             (Decodes("origin_block") /\ ReadLine(line, conflict)) =>
                 state'.metadata = MetadataOf(line)]_vars
    /\ [][Decodes("measure_header") =>
             /\ state'.tag = "MeasureHeader"
             /\ state.tag = "OriginBlock"
             /\ state'.metadata = state.metadata]_vars
    /\ [][\A line \in MeasureLines \cup UKLines, conflict \in 0..2 :
             (/\ Decodes("measure_block")
                    \/ Decodes("measure_unknown_scale_block")
              /\ ReadLine(line, conflict)) =>
                 /\ state.tag \in HoldMetadata
                 /\ state'.tag \in HoldMetadata
                 /\ state'.metadata =
                       [state.metadata EXCEPT
                           !.stations = StationsOf(line, line_type')]]_vars

\* Two origin lines were decoded, of author A with analysis type m and then
\* of author B without one; the measure titles and a line of the
\* unknown-scale pattern followed: the metadata are those of the second
\* origin line with the stations of the measure line.
C36_Witness ==
    /\ line_num = 7
    /\ Errors = <<>>
    /\ state.tag = "MeasureUKScaleBlock"
    /\ dict_has(context.agencies, "A") /\ dict_has(context.agencies, "B")
    /\ state.metadata =
          [strike |-> NoValue, stations |-> [text |-> "12"],
           analysis_type |-> NoValue]

-----------------------------------------------------------------------------
(* The whitespace around a line.                                           *)

\* The line as it would be classified if only the whitespace at its end
\* were removed.
TrailingStripped(line) == [line EXCEPT !.trail = 0]

\* The text of the line, without the whitespace at either end.
BothStripped(line) == [line EXCEPT !.lead = 0, !.trail = 0]

\* C37 as stated: only the whitespace at the end of a line is removed
\* before it is classified; the whitespace at its start is kept, so that
\* the literals, the lengths 136 and 38 and the columns apply to the line
\* as it starts in the input.
C37_LeadingKept ==
    [][(Scripted /\ pc = "loop" /\ line_num' = line_num + 1) =>
          line_type' = detect_line_type(TrailingStripped(script[line_num']),
                                        is_start(state, initial))]_vars

\* C37, amended: the whitespace at both ends of a line is removed before
\* it is classified; the literals, the patterns and the lengths 136 and 38
\* apply to the text that is left, however much whitespace was before it.
C37_BothEndsStripped ==
    [][(Scripted /\ pc = "loop" /\ line_num' = line_num + 1) =>
          LET line == script[line_num']
              flag == is_start(state, initial)
          IN  /\ line_type' = detect_line_type(BothStripped(line), flag)
              /\ line.form = "ISC Bulletin" => line_type' = "catalogue_header"
              /\ line_type' = "origin_block" => line.len = 136
              /\ line_type' = "measure_block" => line.len = 38]_vars

\* A catalogue header with two blanks before it was decoded as the
\* catalogue header.
C37_Witness ==
    /\ line_num = 1
    /\ script[1] = [CatalogueLine EXCEPT !.lead = 2]
    /\ line_type = "catalogue_header"
    /\ initial.eventsource = ISC
    /\ Errors = <<>>

-----------------------------------------------------------------------------
(* The agencies of the measure lines.                                      *)

\* C38: only origin lines add to the agency count.  A measure line that
\* is decoded hands the agency code of its own column to get_or_create,
\* whatever the context maps, so that the agency of that code and of the
\* event source is in the session afterwards and is the agency of the
\* measure, and it leaves the agency count as it is even when it created
\* the agency.
C38_AgencyCount ==
    /\ [][(TriesLine /\ line_type' # "origin_block") =>
             Count("agency")' = Count("agency")]_vars
    /\ [][\A line \in MeasureLines \cup UKLines, conflict \in 0..2 :
             (/\ Decodes("measure_block")
                    \/ Decodes("measure_unknown_scale_block")
              /\ ReadLine(line, conflict)) =>
                 LET akey == [source_key |-> line.author,
                              eventsource |-> initial.eventsource]
                 IN  /\ [kind |-> "agency", key |-> akey] \in Keys(working')
                     /\ \E r \in RowsOf(working', "measure") :
                           /\ r.key.agency = akey
                           /\ r.key.event = state.event
                     /\ RowsOf(working', "agency") \ RowsOf(working, "agency")
                           \subseteq {Row("agency", akey, None)}]_vars

\* A run has returned in which the origin line created agency A and the
\* measure line agency B: two agencies are in the database and one is
\* counted.
C38_Witness ==
    /\ pc = "returned"
    /\ catalogue0 = {}
    /\ Errors = <<>>
    /\ Cardinality(RowsOf(committed, "agency")) = 2
    /\ Count("agency") = 1
    /\ Count("measure") = 1

-----------------------------------------------------------------------------
(* The provenance of a converted measure.                                  *)

\* C39: after n >= 1 calls of convert, the first on a MagnitudeMeasure and
\* each next one on the result of the one before, the k-th result (k <= n)
\* is a ConvertedMeasure whose original_measure is the MagnitudeMeasure,
\* whose list of formulas holds the first k formulas in the order of the
\* calls, and whose scale is the target scale of the k-th formula: the
\* list of an earlier result is not changed by the later calls.
C39_Provenance ==
    /\ Len(chain) = Len(applied) + 1
    /\ \A k \in 1..Len(applied) :
          /\ is_converted(chain[k + 1])
          /\ chain[k + 1].original_measure = chain[1]
          /\ heap[chain[k + 1].formulas] = SubSeq(applied, 1, k)
          /\ chain[k + 1].scale = applied[k].target_scale
    /\ Len(applied) >= 1 => ~is_converted(chain[1])

\* Three conversions were made, to ms, to Mw and to mb.
C39_Witness ==
    /\ Len(applied) = 3
    /\ applied[1].target_scale = "ms"
    /\ applied[2].target_scale = "Mw"
    /\ applied[3].target_scale = "mb"
    /\ heap[chain[4].formulas] = applied
    /\ heap[chain[2].formulas] = <<applied[1]>>

====
